---- MODULE Spec2Model ----
(***************************************************************************)
(* Model of the Sequelize usage analysis of sequelize-grant-generator.     *)
(*                                                                         *)
(* The repository holds two revisions of the parser class: the file        *)
(* src/src/parser.ts and the file src/unnamed/part_002.  Both are          *)
(* modelled; the variable impl says which revision an analysis runs.       *)
(* Definitions that model src/src/parser.ts and share their name with a    *)
(* definition of src/unnamed/part_002 carry the suffix _parser_ts.         *)
(*                                                                         *)
(* A JavaScript TypeError (a property read or written on undefined) ends   *)
(* the analysis: status becomes "thrown" and the store keeps whatever was  *)
(* written before the throw.                                               *)
(***************************************************************************)
EXTENDS Naturals, Sequences, FiniteSets, TLC

VARIABLES
    impl,            \* which revision of SequelizeParser runs
    availableModels, \* the entity registry handed to the constructor
    options,         \* SequelizeParserOptions
    status,          \* position of getModelsFromSourceFiles
    foundModels,     \* the usage store, in key insertion order
    visited,         \* number of import / call nodes visited so far
    last,            \* the node handled by the latest step and what it resolved to
    written,         \* entity names a write or mixin call resolved to or targeted
    imported,        \* entity names an import specifier matched
    diagnostics,     \* the console output of the latest step
    program,         \* the source files of the project, program.getSourceFiles()
    sourceFile,      \* index of the source file visitAllSourceFiles is at
    pending,         \* the nodes nodeVisitor is still to be called on, next first
    trace,           \* the nodes nodeVisitor was called on, and as what
    completions,     \* how many times addHiddenManyToManyModels has started
    sqlUsername,     \* generateSQLCommandsFromFoundModels: databaseUsername
    sqlOptions,      \* generateSQLCommandsFromFoundModels: SQLGeneratorOptions
    query            \* generateSQLCommandsFromFoundModels: the commands generated

\* The visitor's position in the project, and the SQL generator's input and
\* output.
visitorVars == <<program, sourceFile, pending, trace, completions>>
generatorVars == <<sqlUsername, sqlOptions, query>>

vars ==
    <<impl, availableModels, options, status, foundModels, visited, last, written, imported,
      diagnostics, visitorVars, generatorVars>>

(***************************************************************************)
(* Bounds of the model.                                                    *)
(***************************************************************************)
MaxNodes == 2       \* import declarations and call expressions per source set

Undefined == "undefined"

(***************************************************************************)
(* src/src/types/parser.dto.ts                                             *)
(***************************************************************************)
INSERT == "INSERT"
UPDATE == "UPDATE"
DELETE == "DELETE"
SequelizeWriteOperationType == {INSERT, UPDATE, DELETE}

\* A fresh record: SELECT only.
SequelizeParserModelOperations(key, table) ==
    [key |-> key, table |-> table, isSelect |-> TRUE,
     isInsert |-> FALSE, isUpdate |-> FALSE, isDelete |-> FALSE]

(***************************************************************************)
(* src/src/helpers.ts                                                      *)
(***************************************************************************)
\* model.getTableName() is a string or {schema, tableName, delimiter}.
getSequelizeModelTableName(model) ==
    IF model.tableName.kind = "string"
    THEN model.tableName.tableName
    ELSE model.tableName.schema \o model.tableName.delimiter \o model.tableName.tableName

SequelizeDefaultWriteMethodsRecord ==
    [build |-> <<INSERT>>,
     bulkCreate |-> <<INSERT>>,
     create |-> <<INSERT>>,
     findCreateFind |-> <<INSERT>>,
     findOrBuild |-> <<INSERT>>,
     findOrCreate |-> <<INSERT>>,
     bulkUpdate |-> <<UPDATE>>,
     decrement |-> <<UPDATE>>,
     increment |-> <<UPDATE>>,
     restore |-> <<UPDATE>>,
     save |-> <<UPDATE>>,
     set |-> <<UPDATE>>,
     update |-> <<UPDATE>>,
     upsert |-> <<INSERT, UPDATE>>,
     destroy |-> <<DELETE>>]

SequelizeTypescriptGeneratedWriteMixins == <<"$add", "$create", "$set", "$remove">>

isSequelizeTypescriptGeneratedWriteMethod(method) ==
    \E i \in 1..Len(SequelizeTypescriptGeneratedWriteMixins) :
        SequelizeTypescriptGeneratedWriteMixins[i] = method

isSequelizeModelWriteMethod(method) ==
    \/ method \in DOMAIN SequelizeDefaultWriteMethodsRecord
    \/ isSequelizeTypescriptGeneratedWriteMethod(method)

\* A through option is a string, a model class, or {model: string | class};
\* anything else logs "Invalid through model" and yields undefined.
getSequelizeModelNameFromThroughModel(throughModel) ==
    CASE throughModel.kind = "string" -> throughModel.model
      [] throughModel.kind = "class" -> throughModel.model
      [] throughModel.kind = "options_string" -> throughModel.model
      [] throughModel.kind = "options_class" -> throughModel.model
      [] OTHER -> Undefined

(***************************************************************************)
(* The entity registries an analysis is run against.  A model class is     *)
(* [name, tableName, associations]; an association is                      *)
(* [as, associationType, target, through] with target a model class        *)
(* reference (name and table) that need not be registered.                 *)
(***************************************************************************)
StringTable(t) == [kind |-> "string", schema |-> "", delimiter |-> "", tableName |-> t]
SchemaTable(s, d, t) == [kind |-> "object", schema |-> s, delimiter |-> d, tableName |-> t]

UserTable == StringTable("users")
RoleTable == SchemaTable("auth", ".", "roles")
UserRoleTable == StringTable("user_roles")
ExternalTable == StringTable("externals")

NoThrough == [kind |-> "none", model |-> Undefined]
Through(kind, model) == [kind |-> kind, model |-> model]
ClassRef(name, table) == [name |-> name, tableName |-> table]

Association(as, type, target, through) ==
    [as |-> as, associationType |-> type, target |-> target, through |-> through]

ModelClass(name, table, associations) ==
    [name |-> name, tableName |-> table, associations |-> associations]

\* User many-to-many Role through UserRole, declared on both sides, plus a
\* plain (not many-to-many) association.
BasicModels ==
    [User |-> ModelClass("User", UserTable,
        <<Association("roles", "BelongsToMany", ClassRef("Role", RoleTable),
                      Through("options_class", "UserRole")),
          Association("mainRole", "BelongsTo", ClassRef("Role", RoleTable), NoThrough)>>),
     Role |-> ModelClass("Role", RoleTable,
        <<Association("users", "BelongsToMany", ClassRef("User", UserTable),
                      Through("string", "UserRole"))>>),
     UserRole |-> ModelClass("UserRole", UserRoleTable, <<>>)]

\* Descriptors the parser has to survive: a join entity that is not
\* registered, a through option of no known form, a target that is not
\* registered, and a many-to-many association with neither registered.
BrokenModels ==
    [User |-> ModelClass("User", UserTable,
        <<Association("tags", "BelongsToMany", ClassRef("Role", RoleTable),
                      Through("class", "Ghost")),
          Association("labels", "BelongsToMany", ClassRef("Role", RoleTable),
                      Through("invalid", Undefined)),
          Association("ext", "HasMany", ClassRef("External", ExternalTable), NoThrough),
          Association("orphans", "BelongsToMany", ClassRef("External", ExternalTable),
                      Through("class", "Ghost"))>>),
     Role |-> ModelClass("Role", RoleTable, <<>>),
     UserRole |-> ModelClass("UserRole", UserRoleTable, <<>>)]

\* The target of one many-to-many association (Role) is the join entity of
\* another one, owned by a different entity.
ChainModels ==
    [User |-> ModelClass("User", UserTable,
        <<Association("roles", "BelongsToMany", ClassRef("Role", RoleTable),
                      Through("options_string", "UserRole"))>>),
     Role |-> ModelClass("Role", RoleTable, <<>>),
     UserRole |-> ModelClass("UserRole", UserRoleTable,
        <<Association("approvers", "BelongsToMany", ClassRef("User", UserTable),
                      Through("class", "Role"))>>)]

Registries == {BasicModels, BrokenModels, ChainModels}

\* availableModels[key] of a Record<string, ModelStatic>: undefined off the keys.
IsRegistered(am, key) == key \in DOMAIN am

NoAssociation ==
    [as |-> Undefined, associationType |-> Undefined,
     target |-> ClassRef(Undefined, StringTable("")), through |-> NoThrough]

\* model.associations[name]
AssociationOf(model, name) ==
    IF \E i \in 1..Len(model.associations) : model.associations[i].as = name
    THEN model.associations[CHOOSE i \in 1..Len(model.associations) :
                                model.associations[i].as = name]
    ELSE NoAssociation

(***************************************************************************)
(* The usage store: SequelizeFoundModelsRecord, a JavaScript object whose  *)
(* keys enumerate in insertion order.  Modelled as the sequence of its     *)
(* records in that order.                                                  *)
(***************************************************************************)
Keys(fm) == [i \in 1..Len(fm) |-> fm[i].key]
KeySet(fm) == {fm[i].key : i \in 1..Len(fm)}
Has(fm, key) == \E i \in 1..Len(fm) : fm[i].key = key
IndexOf(fm, key) == CHOOSE i \in 1..Len(fm) : fm[i].key = key
Get(fm, key) == fm[IndexOf(fm, key)]

\* this.foundModels[key] = {table, isSelect: true, isInsert: false, ...}
PutNew(fm, key, table) ==
    IF Has(fm, key)
    THEN [fm EXCEPT ![IndexOf(fm, key)] = SequelizeParserModelOperations(key, table)]
    ELSE Append(fm, SequelizeParserModelOperations(key, table))

SetInsert(fm, key) == [fm EXCEPT ![IndexOf(fm, key)].isInsert = TRUE]
SetUpdate(fm, key) == [fm EXCEPT ![IndexOf(fm, key)].isUpdate = TRUE]
SetDelete(fm, key) == [fm EXCEPT ![IndexOf(fm, key)].isDelete = TRUE]

\* The outcome of a handler: the store it leaves, and whether it threw.
Ok(fm) == [fm |-> fm, threw |-> FALSE]
Threw(fm) == [fm |-> fm, threw |-> TRUE]

(***************************************************************************)
(* Syntax nodes, as far as the parser reads them.                          *)
(*   import declaration: moduleSpecifier, namedBindings, elements          *)
(*   import specifier:   name, propertyName (Undefined when not aliased)   *)
(*   call expression:    expression [children, firstToken], arguments      *)
(*   token:              kind, text, type [symbol, declarations]           *)
(*   declaration:        kind, heritageClauses, each a sequence of         *)
(*                       [typeArguments [present, items], expression]      *)
(***************************************************************************)
RECURSIVE Flatten(_)
Flatten(seqs) ==
    IF seqs = <<>> THEN <<>> ELSE Head(seqs) \o Flatten(Tail(seqs))

\* The first text of the sequence that is a key of the registry: what a
\* scan with "if (!model) model = availableModels[text]" ends with.
RECURSIVE FirstRegistered(_, _)
FirstRegistered(am, texts) ==
    IF texts = <<>> THEN Undefined
    ELSE IF IsRegistered(am, Head(texts)) THEN am[Head(texts)].name
    ELSE FirstRegistered(am, Tail(texts))

HeritageTypes(declaration) == Flatten(declaration.heritageClauses)

\* src/unnamed/part_002: for one heritage type, the type arguments first,
\* then the arguments of a call-expression base, else an identifier base.
HeritageTexts(t) ==
    (IF t.typeArguments.present THEN t.typeArguments.items ELSE <<>>)
    \o (IF t.expression.kind = "CallExpression" THEN t.expression.arguments
        ELSE IF t.expression.kind = "Identifier" THEN <<t.expression.text>>
        ELSE <<>>)

DeclarationTexts(declaration) ==
    IF declaration.kind \in {"InterfaceDeclaration", "ClassDeclaration"}
    THEN Flatten([i \in 1..Len(HeritageTypes(declaration)) |->
                     HeritageTexts(HeritageTypes(declaration)[i])])
    ELSE <<>>

\* src/unnamed/part_002, SequelizeParser.findModelFromNode: the name of the
\* model the token denotes, or Undefined.
findModelFromNode(am, node) ==
    IF IsRegistered(am, node.text) THEN am[node.text].name
    ELSE IF node.kind # "Identifier" THEN Undefined
    ELSE IF IsRegistered(am, node.type.symbol) THEN am[node.type.symbol].name
    ELSE FirstRegistered(am,
            Flatten([i \in 1..Len(node.type.declarations) |->
                        DeclarationTexts(node.type.declarations[i])]))

\* src/src/parser.ts: an interface is scanned by its type arguments only
\* (t.typeArguments.forEach, a TypeError when the heritage type has none),
\* a class by the base expression only.
HeritageTexts_parser_ts(declaration, t) ==
    IF declaration.kind = "InterfaceDeclaration" THEN t.typeArguments.items
    ELSE IF declaration.kind = "ClassDeclaration"
    THEN (IF t.expression.kind = "CallExpression" THEN t.expression.arguments
          ELSE IF t.expression.kind = "Identifier" THEN <<t.expression.text>>
          ELSE <<>>)
    ELSE <<>>

DeclarationTexts_parser_ts(declaration) ==
    Flatten([i \in 1..Len(HeritageTypes(declaration)) |->
                HeritageTexts_parser_ts(declaration, HeritageTypes(declaration)[i])])

DeclarationThrows_parser_ts(declaration) ==
    /\ declaration.kind = "InterfaceDeclaration"
    /\ \E i \in 1..Len(HeritageTypes(declaration)) :
           ~HeritageTypes(declaration)[i].typeArguments.present

\* What findModelFromNode of src/src/parser.ts ends with: a model name (or
\* Undefined), or a throw.
Found(model) == [model |-> model, threw |-> FALSE]
FindThrew == [model |-> Undefined, threw |-> TRUE]

\* src/src/parser.ts, SequelizeParser.findModelFromNode
findModelFromNode_parser_ts(am, node) ==
    IF IsRegistered(am, node.text) THEN Found(am[node.text].name)
    ELSE IF node.kind # "Identifier" THEN Found(Undefined)
    ELSE IF IsRegistered(am, node.type.symbol) THEN Found(am[node.type.symbol].name)
    ELSE IF \E i \in 1..Len(node.type.declarations) :
                DeclarationThrows_parser_ts(node.type.declarations[i])
    THEN FindThrew
    ELSE Found(FirstRegistered(am,
                Flatten([i \in 1..Len(node.type.declarations) |->
                            DeclarationTexts_parser_ts(node.type.declarations[i])])))

(***************************************************************************)
(* Diagnostics: what the handlers write to the console, in order.  Each    *)
(* is named by its level and the head of its message.                      *)
(***************************************************************************)
WarnHeritageClause == "warn: Using 'HeritageClause', can't determine model"
WarnMappedType == "warn: Using 'MappedType', can't determine model"
ErrorNoModel == "error: Could not find model for"
WarnNotDefaultMethod == "warn: Method is not a default write method"
WarnNotStringLiteral == "warn: Association name is not a string literal"
WarnNoAssociation == "warn: Association not found in model"
ErrorNoTargetModel == "error: Could not find target model"
ErrorInvalidThrough == "error: Invalid through model"
ErrorNoThroughModel == "error: Could not find through model"
WarnNoThroughModel == "warn: Could not find through model"

\* src/unnamed/part_002: h.types.some(...) over the heritage types of one
\* declaration stops at the first type that yields a model; a type whose
\* base is neither a call nor a registered identifier is warned about.
RECURSIVE HeritageDiagnostics(_, _)
HeritageDiagnostics(am, types) ==
    IF types = <<>> THEN <<>>
    ELSE IF FirstRegistered(am, HeritageTexts(Head(types))) # Undefined THEN <<>>
    ELSE (IF Head(types).expression.kind = "CallExpression" THEN <<>>
          ELSE <<WarnHeritageClause>>)
         \o HeritageDiagnostics(am, Tail(types))

\* getDeclarations()?.some(...): stops at the first declaration that
\* yields a model.
RECURSIVE DeclarationsDiagnostics(_, _)
DeclarationsDiagnostics(am, declarations) ==
    IF declarations = <<>> THEN <<>>
    ELSE IF Head(declarations).kind \in {"InterfaceDeclaration", "ClassDeclaration"}
    THEN HeritageDiagnostics(am, HeritageTypes(Head(declarations)))
         \o (IF FirstRegistered(am, DeclarationTexts(Head(declarations))) # Undefined
             THEN <<>>
             ELSE DeclarationsDiagnostics(am, Tail(declarations)))
    ELSE (IF Head(declarations).kind = "MappedType" THEN <<WarnMappedType>> ELSE <<>>)
         \o DeclarationsDiagnostics(am, Tail(declarations))

\* The console output of findModelFromNode, src/unnamed/part_002.
findModelFromNodeDiagnostics(am, node) ==
    IF IsRegistered(am, node.text) THEN <<>>
    ELSE IF node.kind # "Identifier" THEN <<>>
    ELSE IF IsRegistered(am, node.type.symbol) THEN <<>>
    ELSE DeclarationsDiagnostics(am, node.type.declarations)
         \o (IF findModelFromNode(am, node) = Undefined THEN <<ErrorNoModel>> ELSE <<>>)

\* src/src/parser.ts: forEach visits every declaration up to the one that
\* throws; only a mapped type is warned about.
RECURSIVE DeclarationsDiagnostics_parser_ts(_)
DeclarationsDiagnostics_parser_ts(declarations) ==
    IF declarations = <<>> THEN <<>>
    ELSE IF DeclarationThrows_parser_ts(Head(declarations)) THEN <<>>
    ELSE (IF Head(declarations).kind = "MappedType" THEN <<WarnMappedType>> ELSE <<>>)
         \o DeclarationsDiagnostics_parser_ts(Tail(declarations))

\* The console output of findModelFromNode, src/src/parser.ts.
findModelFromNodeDiagnostics_parser_ts(am, node) ==
    IF IsRegistered(am, node.text) THEN <<>>
    ELSE IF node.kind # "Identifier" THEN <<>>
    ELSE IF IsRegistered(am, node.type.symbol) THEN <<>>
    ELSE DeclarationsDiagnostics_parser_ts(node.type.declarations)
         \o (IF /\ ~findModelFromNode_parser_ts(am, node).threw
                /\ findModelFromNode_parser_ts(am, node).model = Undefined
             THEN <<ErrorNoModel>> ELSE <<>>)

(***************************************************************************)
(* Import declarations.                                                    *)
(***************************************************************************)
NamedImports(node) ==
    IF node.namedBindings = "NamedImports" THEN node.elements ELSE <<>>

\* The registry key an import specifier is looked up under:
\* propertyName?.escapedText ?? name.escapedText
ImportedName(specifier) ==
    IF specifier.propertyName # Undefined THEN specifier.propertyName
    ELSE specifier.name

\* Mutant: an imported model starts with INSERT granted.
ImportSpecifier_Insert(am, fm, specifier) ==
    IF ~IsRegistered(am, ImportedName(specifier)) THEN fm
    ELSE IF Has(fm, am[ImportedName(specifier)].name) THEN fm
    ELSE SetInsert(PutNew(fm, am[ImportedName(specifier)].name,
                          getSequelizeModelTableName(am[ImportedName(specifier)])),
                   am[ImportedName(specifier)].name)

\* src/unnamed/part_002: the record is stored under model.name.
ImportSpecifier(am, fm, specifier) ==
    IF ~IsRegistered(am, ImportedName(specifier)) THEN fm
    ELSE IF Has(fm, am[ImportedName(specifier)].name) THEN fm
    ELSE PutNew(fm, am[ImportedName(specifier)].name,
                getSequelizeModelTableName(am[ImportedName(specifier)]))

\* src/src/parser.ts: the record is stored under name.getText(), the local
\* name of the binding.
ImportSpecifier_parser_ts(am, fm, specifier) ==
    IF ~IsRegistered(am, ImportedName(specifier)) THEN fm
    ELSE IF Has(fm, specifier.name) THEN fm
    ELSE PutNew(fm, specifier.name,
                getSequelizeModelTableName(am[ImportedName(specifier)]))

RECURSIVE ImportSpecifiers(_, _, _, _)
ImportSpecifiers(v, am, fm, specifiers) ==
    IF specifiers = <<>> THEN fm
    ELSE ImportSpecifiers(v, am,
            IF v = "part_002" THEN ImportSpecifier(am, fm, Head(specifiers))
            ELSE ImportSpecifier_parser_ts(am, fm, Head(specifiers)),
            Tail(specifiers))

SkippedByModuleFilter(opts, node) ==
    /\ opts.onlyFromSpecificModuleImport # Undefined
    /\ node.moduleSpecifier # opts.onlyFromSpecificModuleImport

\* SequelizeParser.processImportDeclarationNode of src/unnamed/part_002
processImportDeclarationNode(am, opts, fm, node) ==
    IF SkippedByModuleFilter(opts, node) THEN fm
    ELSE ImportSpecifiers("part_002", am, fm, NamedImports(node))

\* SequelizeParser.processImportDeclarationNode of src/src/parser.ts
processImportDeclarationNode_parser_ts(am, opts, fm, node) ==
    IF SkippedByModuleFilter(opts, node) THEN fm
    ELSE ImportSpecifiers("parser_ts", am, fm, NamedImports(node))

(***************************************************************************)
(* Direct write methods.                                                   *)
(***************************************************************************)
\* operations.forEach((op) => { switch (op) ... }) on the record of key
ApplyOperation(fm, key, op) ==
    CASE op = INSERT -> SetInsert(fm, key)
      [] op = UPDATE -> SetUpdate(fm, key)
      [] op = DELETE -> SetDelete(fm, key)
      [] OTHER -> fm

RECURSIVE ApplyOperations(_, _, _)
ApplyOperations(fm, key, operations) ==
    IF operations = <<>> THEN fm
    ELSE ApplyOperations(ApplyOperation(fm, key, Head(operations)), key, Tail(operations))

\* Mutant: a new record is stored without its SELECT flag.
getOrCreateModelOperations_NoSelect(fm, model) ==
    IF ~Has(fm, model.name)
    THEN Append(fm, [SequelizeParserModelOperations(model.name,
                        getSequelizeModelTableName(model)) EXCEPT !.isSelect = FALSE])
    ELSE fm

\* src/unnamed/part_002, SequelizeParser.getOrCreateModelOperations: the
\* store with a record for model ensured.
getOrCreateModelOperations(fm, model) ==
    IF ~Has(fm, model.name)
    THEN PutNew(fm, model.name, getSequelizeModelTableName(model))
    ELSE fm

\* Mutant: a mixin name makes the handler store a record for the receiver's
\* model before it returns.
processModelWriteMethod_EnsureRecord(fm, model, method) ==
    IF isSequelizeTypescriptGeneratedWriteMethod(method)
    THEN Ok(getOrCreateModelOperations(fm, model))
    ELSE IF method \notin DOMAIN SequelizeDefaultWriteMethodsRecord THEN Ok(fm)
    ELSE Ok(ApplyOperations(getOrCreateModelOperations(fm, model), model.name,
                            SequelizeDefaultWriteMethodsRecord[method]))

\* src/unnamed/part_002, SequelizeParser.processModelWriteMethod
processModelWriteMethod(fm, model, method) ==
    IF isSequelizeTypescriptGeneratedWriteMethod(method) THEN Ok(fm)
    ELSE IF method \notin DOMAIN SequelizeDefaultWriteMethodsRecord THEN Ok(fm)
    ELSE Ok(ApplyOperations(getOrCreateModelOperations(fm, model), model.name,
                            SequelizeDefaultWriteMethodsRecord[method]))

\* src/src/parser.ts, SequelizeParser.updateModelFlagBasedOnMethod: when the
\* model has no record one is stored, but modelOperations stays undefined
\* and the first "modelOperations.isX = true" is a TypeError.
updateModelFlagBasedOnMethod(fm, model, method) ==
    IF isSequelizeTypescriptGeneratedWriteMethod(method) THEN Ok(fm)
    ELSE IF method \notin DOMAIN SequelizeDefaultWriteMethodsRecord THEN Ok(fm)
    ELSE IF ~Has(fm, model.name)
    THEN Threw(PutNew(fm, model.name, getSequelizeModelTableName(model)))
    ELSE Ok(ApplyOperations(fm, model.name, SequelizeDefaultWriteMethodsRecord[method]))

(***************************************************************************)
(* Association mixins: entity.$add / $create / $set / $remove.             *)
(***************************************************************************)
\* Mutant: $remove on a many-to-many association counts as an UPDATE of the
\* join entity.
ApplyMixin_RemoveUpdates(fm, method, target, through) ==
    CASE method = "$add" ->
            IF through # Undefined THEN SetInsert(fm, through) ELSE SetUpdate(fm, target)
      [] method = "$create" ->
            IF through # Undefined THEN SetInsert(SetInsert(fm, target), through)
            ELSE SetInsert(fm, target)
      [] method = "$set" ->
            IF through # Undefined
            THEN SetDelete(SetUpdate(SetInsert(fm, through), through), through)
            ELSE SetUpdate(fm, target)
      [] method = "$remove" ->
            IF through # Undefined THEN SetUpdate(fm, through) ELSE SetUpdate(fm, target)
      [] OTHER -> fm

\* Mutant: without a join record the call has no effect at all.
ApplyMixin_NoTargetFallback(fm, method, target, through) ==
    CASE method = "$add" ->
            IF through # Undefined THEN SetInsert(fm, through) ELSE fm
      [] method = "$create" ->
            IF through # Undefined THEN SetInsert(SetInsert(fm, target), through)
            ELSE fm
      [] method = "$set" ->
            IF through # Undefined
            THEN SetDelete(SetUpdate(SetInsert(fm, through), through), through)
            ELSE fm
      [] method = "$remove" ->
            IF through # Undefined THEN SetDelete(fm, through) ELSE fm
      [] OTHER -> fm

\* The switch (method) of both revisions.  through is the key of the join
\* entity's record, Undefined when there is none.
ApplyMixin(fm, method, target, through) ==
    CASE method = "$add" ->
            IF through # Undefined THEN SetInsert(fm, through) ELSE SetUpdate(fm, target)
      [] method = "$create" ->
            IF through # Undefined THEN SetInsert(SetInsert(fm, target), through)
            ELSE SetInsert(fm, target)
      [] method = "$set" ->
            IF through # Undefined
            THEN SetDelete(SetUpdate(SetInsert(fm, through), through), through)
            ELSE SetUpdate(fm, target)
      [] method = "$remove" ->
            IF through # Undefined THEN SetDelete(fm, through) ELSE SetUpdate(fm, target)
      [] OTHER -> fm

\* src/unnamed/part_002, SequelizeParser.getThroughModelOperations: the key
\* of the join entity's record (Undefined when the association has none
\* that is registered) ...
ThroughModelKey(am, association) ==
    IF association.associationType # "BelongsToMany" THEN Undefined
    ELSE IF association.through.kind = "none" THEN Undefined
    ELSE IF getSequelizeModelNameFromThroughModel(association.through) = Undefined
    THEN Undefined
    ELSE IF ~IsRegistered(am, getSequelizeModelNameFromThroughModel(association.through))
    THEN Undefined
    ELSE am[getSequelizeModelNameFromThroughModel(association.through)].name

\* ... and the store it leaves, with that record ensured.
getThroughModelOperations(am, fm, association) ==
    IF ThroughModelKey(am, association) = Undefined THEN fm
    ELSE getOrCreateModelOperations(fm, am[ThroughModelKey(am, association)])

\* Mutant: a mixin call also ensures a record for the source model.
processModelTypescriptMixins_TouchSource(am, fm, sourceModel, method, args) ==
    IF ~isSequelizeTypescriptGeneratedWriteMethod(method) THEN fm
    ELSE IF Len(args) < 2 THEN fm
    ELSE IF args[1].kind # "StringLiteral" THEN fm
    ELSE IF AssociationOf(sourceModel, args[1].text) = NoAssociation THEN fm
    ELSE IF ~IsRegistered(am, AssociationOf(sourceModel, args[1].text).target.name) THEN fm
    ELSE ApplyMixin(
            getThroughModelOperations(am,
                getOrCreateModelOperations(
                    getOrCreateModelOperations(fm, sourceModel),
                    AssociationOf(sourceModel, args[1].text).target),
                AssociationOf(sourceModel, args[1].text)),
            method,
            AssociationOf(sourceModel, args[1].text).target.name,
            ThroughModelKey(am, AssociationOf(sourceModel, args[1].text)))

\* Mutant: the target's record is stored before the target is looked up in
\* the registry.
processModelTypescriptMixins_TargetBeforeCheck(am, fm, sourceModel, method, args) ==
    IF ~isSequelizeTypescriptGeneratedWriteMethod(method) THEN fm
    ELSE IF Len(args) < 2 THEN fm
    ELSE IF args[1].kind # "StringLiteral" THEN fm
    ELSE IF AssociationOf(sourceModel, args[1].text) = NoAssociation THEN fm
    ELSE IF ~IsRegistered(am, AssociationOf(sourceModel, args[1].text).target.name)
    THEN getOrCreateModelOperations(fm, AssociationOf(sourceModel, args[1].text).target)
    ELSE ApplyMixin(
            getThroughModelOperations(am,
                getOrCreateModelOperations(fm, AssociationOf(sourceModel, args[1].text).target),
                AssociationOf(sourceModel, args[1].text)),
            method,
            AssociationOf(sourceModel, args[1].text).target.name,
            ThroughModelKey(am, AssociationOf(sourceModel, args[1].text)))

\* src/unnamed/part_002, SequelizeParser.processModelTypescriptMixins.
\* args is the sequence of argument expressions [kind, text].
processModelTypescriptMixins(am, fm, sourceModel, method, args) ==
    IF ~isSequelizeTypescriptGeneratedWriteMethod(method) THEN fm
    ELSE IF Len(args) < 2 THEN fm
    ELSE IF args[1].kind # "StringLiteral" THEN fm
    ELSE IF AssociationOf(sourceModel, args[1].text) = NoAssociation THEN fm
    ELSE IF ~IsRegistered(am, AssociationOf(sourceModel, args[1].text).target.name) THEN fm
    ELSE ApplyMixin(
            getThroughModelOperations(am,
                getOrCreateModelOperations(fm, AssociationOf(sourceModel, args[1].text).target),
                AssociationOf(sourceModel, args[1].text)),
            method,
            AssociationOf(sourceModel, args[1].text).target.name,
            ThroughModelKey(am, AssociationOf(sourceModel, args[1].text)))

\* src/src/parser.ts: the join entity of a BelongsToMany association, looked
\* up in the registry by the name its through option yields.
ThroughModelKey_parser_ts(am, association) ==
    IF association.associationType # "BelongsToMany" THEN Undefined
    ELSE IF ~IsRegistered(am, getSequelizeModelNameFromThroughModel(association.through))
    THEN Undefined
    ELSE am[getSequelizeModelNameFromThroughModel(association.through)].name

\* src/src/parser.ts, SequelizeParser.updateSequelizeGeneratedAssociationTargetFlag:
\* the target's record is created whether or not the target is registered.
updateSequelizeGeneratedAssociationTargetFlag(am, fm, model, method, args) ==
    IF ~isSequelizeTypescriptGeneratedWriteMethod(method) THEN fm
    ELSE IF Len(args) < 2 THEN fm
    ELSE IF args[1].kind # "StringLiteral" THEN fm
    ELSE IF AssociationOf(model, args[1].text) = NoAssociation THEN fm
    ELSE ApplyMixin(
            LET withTarget ==
                    getOrCreateModelOperations(fm, AssociationOf(model, args[1].text).target)
                through == ThroughModelKey_parser_ts(am, AssociationOf(model, args[1].text))
            IN  IF through = Undefined THEN withTarget
                ELSE getOrCreateModelOperations(withTarget, am[through]),
            method,
            AssociationOf(model, args[1].text).target.name,
            ThroughModelKey_parser_ts(am, AssociationOf(model, args[1].text)))

\* The console output of processModelWriteMethod, src/unnamed/part_002.
processModelWriteMethodDiagnostics(method) ==
    IF isSequelizeTypescriptGeneratedWriteMethod(method) THEN <<>>
    ELSE IF method \notin DOMAIN SequelizeDefaultWriteMethodsRecord
    THEN <<WarnNotDefaultMethod>>
    ELSE <<>>

\* The console output of updateModelFlagBasedOnMethod, src/src/parser.ts.
updateModelFlagBasedOnMethodDiagnostics(method) ==
    IF isSequelizeTypescriptGeneratedWriteMethod(method) THEN <<>>
    ELSE IF method \notin DOMAIN SequelizeDefaultWriteMethodsRecord
    THEN <<WarnNotDefaultMethod>>
    ELSE <<>>

\* console.error(`Invalid through model: ...`) of the helper.
getSequelizeModelNameFromThroughModelDiagnostics(throughModel) ==
    IF throughModel.kind \in {"string", "class", "options_string", "options_class"}
    THEN <<>>
    ELSE <<ErrorInvalidThrough>>

\* The console output of getThroughModelOperations, src/unnamed/part_002.
getThroughModelOperationsDiagnostics(am, association) ==
    IF association.associationType # "BelongsToMany" THEN <<>>
    ELSE IF association.through.kind = "none" THEN <<>>
    ELSE IF getSequelizeModelNameFromThroughModel(association.through) = Undefined
    THEN getSequelizeModelNameFromThroughModelDiagnostics(association.through)
    ELSE IF ~IsRegistered(am, getSequelizeModelNameFromThroughModel(association.through))
    THEN <<ErrorNoThroughModel>>
    ELSE <<>>

\* The console output of processModelTypescriptMixins, src/unnamed/part_002.
processModelTypescriptMixinsDiagnostics(am, sourceModel, method, args) ==
    IF ~isSequelizeTypescriptGeneratedWriteMethod(method) THEN <<>>
    ELSE IF Len(args) < 2 THEN <<>>
    ELSE IF args[1].kind # "StringLiteral" THEN <<WarnNotStringLiteral>>
    ELSE IF AssociationOf(sourceModel, args[1].text) = NoAssociation
    THEN <<WarnNoAssociation>>
    ELSE IF ~IsRegistered(am, AssociationOf(sourceModel, args[1].text).target.name)
    THEN <<ErrorNoTargetModel>>
    ELSE getThroughModelOperationsDiagnostics(am, AssociationOf(sourceModel, args[1].text))

\* The console output of updateSequelizeGeneratedAssociationTargetFlag,
\* src/src/parser.ts.
updateSequelizeGeneratedAssociationTargetFlagDiagnostics(am, model, method, args) ==
    IF ~isSequelizeTypescriptGeneratedWriteMethod(method) THEN <<>>
    ELSE IF Len(args) < 2 THEN <<>>
    ELSE IF args[1].kind # "StringLiteral" THEN <<WarnNotStringLiteral>>
    ELSE IF AssociationOf(model, args[1].text) = NoAssociation THEN <<WarnNoAssociation>>
    ELSE IF AssociationOf(model, args[1].text).associationType # "BelongsToMany" THEN <<>>
    ELSE getSequelizeModelNameFromThroughModelDiagnostics(
            AssociationOf(model, args[1].text).through)
         \o (IF ThroughModelKey_parser_ts(am, AssociationOf(model, args[1].text)) = Undefined
             THEN <<WarnNoThroughModel>> ELSE <<>>)

(***************************************************************************)
(* Call expressions.                                                       *)
(***************************************************************************)
\* Mutant: the structural test without the look-up of the method name in
\* the two vocabularies.
IsWriteCallShape_AnyMethod(node) ==
    /\ Len(node.expression.children) >= 3
    /\ node.expression.children[3].kind = "Identifier"

\* The structural test both revisions make before resolving the receiver:
\* at least three children, the third an identifier naming a write method.
IsWriteCallShape(node) ==
    /\ Len(node.expression.children) >= 3
    /\ node.expression.children[3].kind = "Identifier"
    /\ isSequelizeModelWriteMethod(node.expression.children[3].text)

MethodOf(node) == node.expression.children[3].text

\* The outcome of a call-expression handler: store, thrown or not, and the
\* model findModelFromNode returned (Undefined when none or not asked).
CallOutcome(fm, threw, model) == [fm |-> fm, threw |-> threw, model |-> model]

\* src/unnamed/part_002, SequelizeParser.processCallExpression
processCallExpression(am, fm, node) ==
    IF ~IsWriteCallShape(node) THEN CallOutcome(fm, FALSE, Undefined)
    ELSE LET model == findModelFromNode(am, node.expression.firstToken)
         IN  IF model = Undefined THEN CallOutcome(fm, FALSE, Undefined)
             ELSE CallOutcome(
                    processModelTypescriptMixins(am,
                        processModelWriteMethod(fm, am[model], MethodOf(node)).fm,
                        am[model], MethodOf(node), node.arguments),
                    FALSE, model)

\* src/src/parser.ts, SequelizeParser.findAllWriteOperations
findAllWriteOperations(am, fm, node) ==
    IF ~IsWriteCallShape(node) THEN CallOutcome(fm, FALSE, Undefined)
    ELSE LET found == findModelFromNode_parser_ts(am, node.expression.firstToken)
             model == found.model
         IN  IF found.threw THEN CallOutcome(fm, TRUE, Undefined)
             ELSE IF model = Undefined THEN CallOutcome(fm, FALSE, Undefined)
             ELSE LET flagged == updateModelFlagBasedOnMethod(fm, am[model], MethodOf(node))
                  IN  IF flagged.threw THEN CallOutcome(flagged.fm, TRUE, model)
                      ELSE CallOutcome(
                              updateSequelizeGeneratedAssociationTargetFlag(
                                  am, flagged.fm, am[model], MethodOf(node), node.arguments),
                              FALSE, model)

\* The console output of processCallExpression, src/unnamed/part_002.
processCallExpressionDiagnostics(am, node) ==
    IF ~IsWriteCallShape(node) THEN <<>>
    ELSE LET model == findModelFromNode(am, node.expression.firstToken)
         IN  findModelFromNodeDiagnostics(am, node.expression.firstToken)
             \o (IF model = Undefined THEN <<>>
                 ELSE processModelWriteMethodDiagnostics(MethodOf(node))
                      \o processModelTypescriptMixinsDiagnostics(
                            am, am[model], MethodOf(node), node.arguments))

\* The console output of findAllWriteOperations, src/src/parser.ts, up to
\* the TypeError when there is one.
findAllWriteOperationsDiagnostics(am, fm, node) ==
    IF ~IsWriteCallShape(node) THEN <<>>
    ELSE LET found == findModelFromNode_parser_ts(am, node.expression.firstToken)
         IN  findModelFromNodeDiagnostics_parser_ts(am, node.expression.firstToken)
             \o (IF found.threw \/ found.model = Undefined THEN <<>>
                 ELSE updateModelFlagBasedOnMethodDiagnostics(MethodOf(node))
                      \o (IF updateModelFlagBasedOnMethod(
                                fm, am[found.model], MethodOf(node)).threw
                          THEN <<>>
                          ELSE updateSequelizeGeneratedAssociationTargetFlagDiagnostics(
                                  am, am[found.model], MethodOf(node), node.arguments)))

(***************************************************************************)
(* The completion pass: addHiddenManyToManyModels.                         *)
(***************************************************************************)
HasWriteFlag(record) == record.isInsert \/ record.isUpdate \/ record.isDelete

\* Mutant: the join record's flags are assigned from the target's
\* (through.isInsert = target.isInsert), not raised.
OrFlags_Assign(fm, through, target) ==
    [fm EXCEPT ![IndexOf(fm, through)].isInsert = Get(fm, target).isInsert,
               ![IndexOf(fm, through)].isUpdate = Get(fm, target).isUpdate,
               ![IndexOf(fm, through)].isDelete = Get(fm, target).isDelete]

\* if (target.isInsert) through.isInsert = true; ... for the three flags
OrFlags(fm, through, target) ==
    LET r == Get(fm, target)
        a == IF r.isInsert THEN SetInsert(fm, through) ELSE fm
        b == IF Get(a, target).isUpdate THEN SetUpdate(a, through) ELSE a
    IN  IF Get(b, target).isDelete THEN SetDelete(b, through) ELSE b

\* Mutant: the pass raises the flags of a join record that exists and
\* stores none.
HiddenAssociation_ExistingOnly(am, fm, association) ==
    IF association.associationType # "BelongsToMany" THEN Ok(fm)
    ELSE IF ~Has(fm, association.target.name) THEN Ok(fm)
    ELSE IF ThroughModelKey(am, association) = Undefined
    THEN (IF HasWriteFlag(Get(fm, association.target.name)) THEN Threw(fm) ELSE Ok(fm))
    ELSE IF ~Has(fm, ThroughModelKey(am, association)) THEN Ok(fm)
    ELSE Ok(OrFlags(fm, ThroughModelKey(am, association), association.target.name))

\* Mutant: the join entity's record is ensured before the target's record
\* is looked up, so it is stored also when the target has none.
HiddenAssociation_BeforeTargetCheck(am, fm, association) ==
    IF association.associationType # "BelongsToMany" THEN Ok(fm)
    ELSE IF ~Has(fm, association.target.name)
    THEN Ok(getThroughModelOperations(am, fm, association))
    ELSE IF ThroughModelKey(am, association) = Undefined
    THEN (IF HasWriteFlag(Get(fm, association.target.name)) THEN Threw(fm) ELSE Ok(fm))
    ELSE Ok(OrFlags(getThroughModelOperations(am, fm, association),
                    ThroughModelKey(am, association), association.target.name))

\* src/unnamed/part_002: the body of the inner forEach.  When the join
\* entity does not resolve, throughModelOperations is undefined and the
\* first flag of the target that is set makes the assignment a TypeError.
HiddenAssociation(am, fm, association) ==
    IF association.associationType # "BelongsToMany" THEN Ok(fm)
    ELSE IF ~Has(fm, association.target.name) THEN Ok(fm)
    ELSE IF ThroughModelKey(am, association) = Undefined
    THEN (IF HasWriteFlag(Get(fm, association.target.name)) THEN Threw(fm) ELSE Ok(fm))
    ELSE Ok(OrFlags(getThroughModelOperations(am, fm, association),
                    ThroughModelKey(am, association), association.target.name))

RECURSIVE HiddenAssociations(_, _, _)
HiddenAssociations(am, fm, associations) ==
    IF associations = <<>> THEN Ok(fm)
    ELSE LET step == HiddenAssociation(am, fm, Head(associations))
         IN  IF step.threw THEN step
             ELSE HiddenAssociations(am, step.fm, Tail(associations))

\* The outer forEach over Object.keys(this.foundModels), a snapshot of the
\* keys taken before the loop.  model.associations of a key that is not
\* registered is a TypeError.
RECURSIVE HiddenModels(_, _, _)
HiddenModels(am, fm, keys) ==
    IF keys = <<>> THEN Ok(fm)
    ELSE IF ~IsRegistered(am, Head(keys)) THEN Threw(fm)
    ELSE LET step == HiddenAssociations(am, fm, am[Head(keys)].associations)
         IN  IF step.threw THEN step
             ELSE HiddenModels(am, step.fm, Tail(keys))

\* SequelizeParser.addHiddenManyToManyModels of src/unnamed/part_002
addHiddenManyToManyModels(am, fm) == HiddenModels(am, fm, Keys(fm))

\* src/src/parser.ts: a record stored by the pass starts with the target's
\* flags; its table is read off availableModels[throughModel], a TypeError
\* when the join entity is not registered.
HiddenAssociation_parser_ts(am, fm, association) ==
    LET throughModel == getSequelizeModelNameFromThroughModel(association.through)
    IN  IF association.associationType # "BelongsToMany" THEN Ok(fm)
        ELSE IF throughModel = Undefined \/ throughModel = "" THEN Ok(fm)
        ELSE IF ~Has(fm, association.target.name) THEN Ok(fm)
        ELSE IF Has(fm, throughModel)
        THEN Ok(OrFlags(fm, throughModel, association.target.name))
        ELSE IF ~IsRegistered(am, throughModel) THEN Threw(fm)
        ELSE Ok(Append(fm,
                [key |-> throughModel,
                 table |-> getSequelizeModelTableName(am[throughModel]),
                 isSelect |-> TRUE,
                 isInsert |-> Get(fm, association.target.name).isInsert,
                 isUpdate |-> Get(fm, association.target.name).isUpdate,
                 isDelete |-> Get(fm, association.target.name).isDelete]))

RECURSIVE HiddenAssociations_parser_ts(_, _, _)
HiddenAssociations_parser_ts(am, fm, associations) ==
    IF associations = <<>> THEN Ok(fm)
    ELSE LET step == HiddenAssociation_parser_ts(am, fm, Head(associations))
         IN  IF step.threw THEN step
             ELSE HiddenAssociations_parser_ts(am, step.fm, Tail(associations))

RECURSIVE HiddenModels_parser_ts(_, _, _)
HiddenModels_parser_ts(am, fm, keys) ==
    IF keys = <<>> THEN Ok(fm)
    ELSE IF ~IsRegistered(am, Head(keys)) THEN Threw(fm)
    ELSE LET step == HiddenAssociations_parser_ts(am, fm, am[Head(keys)].associations)
         IN  IF step.threw THEN step
             ELSE HiddenModels_parser_ts(am, step.fm, Tail(keys))

\* SequelizeParser.addHiddenManyToManyModels of src/src/parser.ts
addHiddenManyToManyModels_parser_ts(am, fm) == HiddenModels_parser_ts(am, fm, Keys(fm))

\* The console output of the pass, src/unnamed/part_002: the join entity
\* of a many-to-many association is looked up once its target has a record.
RECURSIVE HiddenAssociationsDiagnostics(_, _, _)
HiddenAssociationsDiagnostics(am, fm, associations) ==
    IF associations = <<>> THEN <<>>
    ELSE LET step == HiddenAssociation(am, fm, Head(associations))
         IN  (IF /\ Head(associations).associationType = "BelongsToMany"
                 /\ Has(fm, Head(associations).target.name)
              THEN getThroughModelOperationsDiagnostics(am, Head(associations))
              ELSE <<>>)
             \o (IF step.threw THEN <<>>
                 ELSE HiddenAssociationsDiagnostics(am, step.fm, Tail(associations)))

RECURSIVE HiddenModelsDiagnostics(_, _, _)
HiddenModelsDiagnostics(am, fm, keys) ==
    IF keys = <<>> THEN <<>>
    ELSE IF ~IsRegistered(am, Head(keys)) THEN <<>>
    ELSE LET step == HiddenAssociations(am, fm, am[Head(keys)].associations)
         IN  HiddenAssociationsDiagnostics(am, fm, am[Head(keys)].associations)
             \o (IF step.threw THEN <<>>
                 ELSE HiddenModelsDiagnostics(am, step.fm, Tail(keys)))

addHiddenManyToManyModelsDiagnostics(am, fm) == HiddenModelsDiagnostics(am, fm, Keys(fm))

\* src/src/parser.ts: the helper reads the through option of every
\* many-to-many association of a model that has a record.
RECURSIVE HiddenAssociationsDiagnostics_parser_ts(_, _, _)
HiddenAssociationsDiagnostics_parser_ts(am, fm, associations) ==
    IF associations = <<>> THEN <<>>
    ELSE LET step == HiddenAssociation_parser_ts(am, fm, Head(associations))
         IN  (IF Head(associations).associationType = "BelongsToMany"
              THEN getSequelizeModelNameFromThroughModelDiagnostics(
                      Head(associations).through)
              ELSE <<>>)
             \o (IF step.threw THEN <<>>
                 ELSE HiddenAssociationsDiagnostics_parser_ts(am, step.fm, Tail(associations)))

RECURSIVE HiddenModelsDiagnostics_parser_ts(_, _, _)
HiddenModelsDiagnostics_parser_ts(am, fm, keys) ==
    IF keys = <<>> THEN <<>>
    ELSE IF ~IsRegistered(am, Head(keys)) THEN <<>>
    ELSE LET step == HiddenAssociations_parser_ts(am, fm, am[Head(keys)].associations)
         IN  HiddenAssociationsDiagnostics_parser_ts(am, fm, am[Head(keys)].associations)
             \o (IF step.threw THEN <<>>
                 ELSE HiddenModelsDiagnostics_parser_ts(am, step.fm, Tail(keys)))

addHiddenManyToManyModelsDiagnostics_parser_ts(am, fm) ==
    HiddenModelsDiagnostics_parser_ts(am, fm, Keys(fm))

(***************************************************************************)
(* The source sets analysed: the nodes a traversal can meet.               *)
(***************************************************************************)
NoType == [symbol |-> Undefined, declarations |-> <<>>]
Token(kind, text, type) == [kind |-> kind, text |-> text, type |-> type]
TypeOf(symbol, declarations) == [symbol |-> symbol, declarations |-> declarations]
NoTypeArguments == [present |-> FALSE, items |-> <<>>]
TypeArguments(items) == [present |-> TRUE, items |-> items]
BaseIdentifier(text) == [kind |-> "Identifier", text |-> text, arguments |-> <<>>]
BaseCall(text, arguments) ==
    [kind |-> "CallExpression", text |-> text, arguments |-> arguments]
HeritageType(typeArguments, expression) ==
    [typeArguments |-> typeArguments, expression |-> expression]
Declaration(kind, heritageClauses) ==
    [kind |-> kind, heritageClauses |-> heritageClauses]

\* User.create(): the class itself
UserClass == Token("Identifier", "User", TypeOf("User", <<>>))
RoleClass == Token("Identifier", "Role", TypeOf("Role", <<>>))
UserRoleClass == Token("Identifier", "UserRole", TypeOf("UserRole", <<>>))
\* const user: User
UserInstance == Token("Identifier", "user", TypeOf("User", <<>>))
RoleInstance == Token("Identifier", "role", TypeOf("Role", <<>>))
UserRoleInstance == Token("Identifier", "link", TypeOf("UserRole", <<>>))
\* interface UserView extends Omit<User, 'id'>
OmitInterface ==
    Token("Identifier", "view", TypeOf("UserView",
        <<Declaration("InterfaceDeclaration",
            <<<<HeritageType(TypeArguments(<<"User", "'id'">>), BaseIdentifier("Omit"))>>>>)>>))
\* class RoleDto extends PickType(Role, ['name'])
PickTypeClass ==
    Token("Identifier", "dto", TypeOf("RoleDto",
        <<Declaration("ClassDeclaration",
            <<<<HeritageType(NoTypeArguments, BaseCall("PickType", <<"Role", "['name']">>))>>>>)>>))
\* class Admin extends User
SubClass ==
    Token("Identifier", "admin", TypeOf("Admin",
        <<Declaration("ClassDeclaration",
            <<<<HeritageType(NoTypeArguments, BaseIdentifier("User"))>>>>)>>))
\* interface RoleLike extends Role
PlainInterface ==
    Token("Identifier", "like", TypeOf("RoleLike",
        <<Declaration("InterfaceDeclaration",
            <<<<HeritageType(NoTypeArguments, BaseIdentifier("Role"))>>>>)>>))
\* interface Payload extends Base, no registered entity anywhere
UnrelatedInterface ==
    Token("Identifier", "payload", TypeOf("Payload",
        <<Declaration("InterfaceDeclaration",
            <<<<HeritageType(NoTypeArguments, BaseIdentifier("Base"))>>>>)>>))
\* class RoleRepo extends Base<Role>
GenericClass ==
    Token("Identifier", "repo", TypeOf("RoleRepo",
        <<Declaration("ClassDeclaration",
            <<<<HeritageType(TypeArguments(<<"Role">>), BaseIdentifier("Base"))>>>>)>>))
\* class Boss extends Admin, two levels away from User
DeepClass ==
    Token("Identifier", "boss", TypeOf("Boss",
        <<Declaration("ClassDeclaration",
            <<<<HeritageType(NoTypeArguments, BaseIdentifier("Admin"))>>>>)>>))
\* type Loose = { [K in keyof User]?: User[K] }
MappedAlias ==
    Token("Identifier", "loose", TypeOf("Loose", <<Declaration("MappedType", <<>>)>>))
\* a value of type any
Untyped == Token("Identifier", "x", NoType)
ThisToken == Token("ThisKeyword", "this", NoType)

Child(kind, text) == [kind |-> kind, text |-> text]
Argument(kind, text) == [kind |-> kind, text |-> text]

CallExpression(children, firstToken, arguments) ==
    [kind |-> "CallExpression",
     expression |-> [children |-> children, firstToken |-> firstToken],
     arguments |-> arguments]

\* receiver.method(arguments)
MethodCall(receiver, method, arguments) ==
    CallExpression(<<Child(receiver.kind, receiver.text), Child("DotToken", "."),
                     Child("Identifier", method)>>, receiver, arguments)

SomeValue == Argument("Identifier", "value")
Literal(text) == Argument("StringLiteral", text)

DefaultWriteMethods == DOMAIN SequelizeDefaultWriteMethodsRecord
MixinMethods == {"$add", "$create", "$set", "$remove"}

DirectCalls ==
    {MethodCall(UserClass, m, <<SomeValue>>) : m \in DefaultWriteMethods}
    \cup {MethodCall(t, m, <<>>) :
            t \in {RoleClass, RoleInstance, UserInstance}, m \in {"destroy", "upsert", "save"}}
    \cup {MethodCall(t, "destroy", <<>>) :
            t \in {OmitInterface, PickTypeClass, SubClass, PlainInterface, GenericClass,
                   DeepClass, MappedAlias, Untyped, ThisToken, UserRoleInstance,
                   UnrelatedInterface}}

AssociationNames ==
    {"roles", "mainRole", "users", "tags", "labels", "ext", "orphans", "approvers", "nope"}

MixinCalls ==
    {MethodCall(UserInstance, m, <<Literal(a), SomeValue>>) :
        m \in MixinMethods, a \in {"roles", "mainRole", "tags", "labels", "ext", "nope"}}
    \cup {MethodCall(RoleInstance, m, <<Literal("users"), SomeValue>>) : m \in {"$add", "$set"}}
    \cup {MethodCall(UserRoleInstance, "$create", <<Literal("approvers"), SomeValue>>),
          MethodCall(UserInstance, "$add", <<Argument("Identifier", "roles"), SomeValue>>),
          MethodCall(UserInstance, "$set", <<Literal("roles")>>),
          MethodCall(UserInstance, "$add", <<Literal("nope")>>),
          MethodCall(UserInstance, "$add", <<Literal("orphans"), SomeValue>>),
          MethodCall(UserInstance, "$create", <<Literal("orphans"), SomeValue>>),
          MethodCall(Untyped, "$add", <<Literal("roles"), SomeValue>>)}

OtherCalls ==
    {\* User.findAll()
     MethodCall(UserClass, "findAll", <<>>),
     \* x.findAll()
     MethodCall(Untyped, "findAll", <<>>),
     \* create(value)
     CallExpression(<<>>, Token("Identifier", "create", NoType), <<SomeValue>>),
     \* User?.create(value)
     CallExpression(<<Child("Identifier", "User"), Child("QuestionDotToken", "?."),
                      Child("Identifier", "create")>>, UserClass, <<SomeValue>>),
     \* User["create"](value)
     CallExpression(<<Child("Identifier", "User"), Child("OpenBracketToken", "["),
                      Child("StringLiteral", "\"create\""), Child("CloseBracketToken", "]")>>,
                    UserClass, <<SomeValue>>),
     \* User[create](value), create a variable
     CallExpression(<<Child("Identifier", "User"), Child("OpenBracketToken", "["),
                      Child("Identifier", "create"), Child("CloseBracketToken", "]")>>,
                    UserClass, <<SomeValue>>)}

CallNodes == DirectCalls \cup MixinCalls \cup OtherCalls

ImportSpecifierNode(name, propertyName) == [name |-> name, propertyName |-> propertyName]

ImportDeclaration(moduleSpecifier, namedBindings, elements) ==
    [kind |-> "ImportDeclaration", moduleSpecifier |-> moduleSpecifier,
     namedBindings |-> namedBindings, elements |-> elements]

Plain(name) == ImportSpecifierNode(name, Undefined)

ImportNodes ==
    {ImportDeclaration("./models", "NamedImports", <<s>>) :
        s \in {Plain("User"), Plain("Role"), Plain("UserRole"), Plain("Helper"),
               \* import { User as U }
               ImportSpecifierNode("U", "User"),
               \* import { Helper as Role }
               ImportSpecifierNode("Role", "Helper")}}
    \cup {ImportDeclaration("./models", "NamedImports", <<Plain("User"), Plain("Role")>>),
          ImportDeclaration("./models", "NamedImports", <<Plain("User"), Plain("User")>>),
          ImportDeclaration("./models", "NamedImports", <<Plain("User"), Plain("UserRole")>>),
          ImportDeclaration("./models", "NamedImports",
                            <<ImportSpecifierNode("U", "User"), Plain("User")>>),
          ImportDeclaration("./other", "NamedImports", <<Plain("User")>>),
          ImportDeclaration("./models", "NamespaceImport", <<>>)}

NoNode == [kind |-> "none"]

(***************************************************************************)
(* The analysis as a state machine: getModelsFromSourceFiles.              *)
(***************************************************************************)
Revisions == {"part_002", "parser_ts"}

OptionSets ==
    {[onlyFromSpecificModuleImport |-> Undefined],
     [onlyFromSpecificModuleImport |-> "./models"]}

Last(op, node, model) == [op |-> op, node |-> node, model |-> model]

\* SQLGeneratorOptions with no field given, and no commands generated yet.
NoSQLOptions == [field \in {} |-> TRUE]
NoQuery == [commands |-> <<>>, text |-> Undefined]

Init ==
    /\ impl \in Revisions
    /\ availableModels \in Registries
    /\ options \in OptionSets
    /\ (options.onlyFromSpecificModuleImport # Undefined => availableModels = BasicModels)
    /\ status = "new"
    /\ foundModels = <<>>
    /\ visited = 0
    /\ last = Last("none", NoNode, Undefined)
    /\ written = {}
    /\ imported = {}
    /\ diagnostics = <<>>
    /\ program = <<>>
    /\ sourceFile = 0
    /\ pending = <<>>
    /\ trace = <<>>
    /\ completions = 0
    /\ sqlUsername = Undefined
    /\ sqlOptions = NoSQLOptions
    /\ query = NoQuery

\* The configuration file the constructor looks for: not there, there but
\* not parseable, or there and well formed.
ConfigFiles == {"missing", "unparsable", "valid"}

\* constructor -> loadProjectConfig: throws when ts.findConfigFile finds no
\* file.  The errors ts.parseJsonSourceFileConfigFileContent reports for a
\* file it cannot parse are not read, and the program is created from
\* whatever file names and options it returned.
loadProjectConfig ==
    /\ status = "new"
    /\ \E config \in ConfigFiles :
        /\ status' = IF config = "missing" THEN "config_error" ELSE "traversing"
        /\ last' = Last("loadProjectConfig", NoNode, config)
    /\ diagnostics' = <<>>
    /\ UNCHANGED <<visitorVars, generatorVars>>
    /\ UNCHANGED <<impl, availableModels, options, foundModels, visited, written, imported>>

\* The entities a mixin call names: the association's target and, for a
\* many-to-many association, the join entity its through option names.
MixinTargets(model, node) ==
    IF /\ isSequelizeTypescriptGeneratedWriteMethod(MethodOf(node))
       /\ Len(node.arguments) >= 2
       /\ node.arguments[1].kind = "StringLiteral"
       /\ AssociationOf(model, node.arguments[1].text) # NoAssociation
    THEN LET association == AssociationOf(model, node.arguments[1].text)
         IN  {association.target.name}
             \cup (IF association.associationType = "BelongsToMany"
                   THEN {getSequelizeModelNameFromThroughModel(association.through)} \ {Undefined}
                   ELSE {})
    ELSE {}

Written(am, outcome, node) ==
    IF outcome.model = Undefined THEN {}
    ELSE {outcome.model} \cup MixinTargets(am[outcome.model], node)

\* The entities the specifiers of an import declaration match, when the
\* declaration passes the module filter.
Imported(am, opts, node) ==
    IF SkippedByModuleFilter(opts, node) THEN {}
    ELSE {am[ImportedName(NamedImports(node)[i])].name :
            i \in {j \in 1..Len(NamedImports(node)) :
                      IsRegistered(am, ImportedName(NamedImports(node)[j]))}}

\* nodeVisitor on an import declaration, src/unnamed/part_002
VisitImport ==
    /\ impl = "part_002"
    /\ status = "traversing"
    /\ visited < MaxNodes
    /\ \E node \in ImportNodes :
        /\ foundModels' = processImportDeclarationNode(availableModels, options, foundModels, node)
        /\ last' = Last("import", node, Undefined)
        /\ imported' = imported \cup Imported(availableModels, options, node)
    /\ diagnostics' = <<>>
    /\ visited' = visited + 1
    /\ UNCHANGED <<visitorVars, generatorVars>>
    /\ UNCHANGED <<impl, availableModels, options, status, written>>

\* nodeVisitor on an import declaration, src/src/parser.ts
VisitImport_parser_ts ==
    /\ impl = "parser_ts"
    /\ status = "traversing"
    /\ visited < MaxNodes
    /\ \E node \in ImportNodes :
        /\ foundModels' =
             processImportDeclarationNode_parser_ts(availableModels, options, foundModels, node)
        /\ last' = Last("import", node, Undefined)
        /\ imported' = imported \cup Imported(availableModels, options, node)
    /\ diagnostics' = <<>>
    /\ visited' = visited + 1
    /\ UNCHANGED <<visitorVars, generatorVars>>
    /\ UNCHANGED <<impl, availableModels, options, status, written>>

\* nodeVisitor on a call expression, src/unnamed/part_002
VisitCall ==
    /\ impl = "part_002"
    /\ status = "traversing"
    /\ visited < MaxNodes
    /\ \E node \in CallNodes :
        LET outcome == processCallExpression(availableModels, foundModels, node)
        IN  /\ foundModels' = outcome.fm
            /\ last' = Last("call", node, outcome.model)
            /\ written' = written \cup Written(availableModels, outcome, node)
            /\ diagnostics' = processCallExpressionDiagnostics(availableModels, node)
    /\ visited' = visited + 1
    /\ UNCHANGED <<visitorVars, generatorVars>>
    /\ UNCHANGED <<impl, availableModels, options, status, imported>>

\* nodeVisitor on a call expression, src/src/parser.ts
VisitCall_parser_ts ==
    /\ impl = "parser_ts"
    /\ status = "traversing"
    /\ visited < MaxNodes
    /\ \E node \in CallNodes :
        LET outcome == findAllWriteOperations(availableModels, foundModels, node)
        IN  /\ foundModels' = outcome.fm
            /\ last' = Last("call", node, outcome.model)
            /\ written' = written \cup Written(availableModels, outcome, node)
            /\ status' = IF outcome.threw THEN "thrown" ELSE status
            /\ diagnostics' =
                 findAllWriteOperationsDiagnostics(availableModels, foundModels, node)
    /\ visited' = visited + 1
    /\ UNCHANGED <<visitorVars, generatorVars>>
    /\ UNCHANGED <<impl, availableModels, options, imported>>

\* Mutant: the completion pass empties the association list of every
\* registered entity it walks.
Complete_ConsumesAssociations ==
    /\ impl = "part_002"
    /\ status = "traversing"
    /\ LET outcome == addHiddenManyToManyModels(availableModels, foundModels)
       IN  /\ foundModels' = outcome.fm
           /\ status' = IF outcome.threw THEN "thrown" ELSE "done"
    /\ diagnostics' = addHiddenManyToManyModelsDiagnostics(availableModels, foundModels)
    /\ last' = Last("complete", NoNode, Undefined)
    /\ availableModels' =
         [name \in DOMAIN availableModels |->
            IF Has(foundModels, name)
            THEN [availableModels[name] EXCEPT !.associations = <<>>]
            ELSE availableModels[name]]
    /\ UNCHANGED <<visitorVars, generatorVars>>
    /\ UNCHANGED <<impl, options, visited, written, imported>>

\* visitAllSourceFiles after the last source file, src/unnamed/part_002
Complete ==
    /\ impl = "part_002"
    /\ status = "traversing"
    /\ LET outcome == addHiddenManyToManyModels(availableModels, foundModels)
       IN  /\ foundModels' = outcome.fm
           /\ status' = IF outcome.threw THEN "thrown" ELSE "done"
    /\ diagnostics' = addHiddenManyToManyModelsDiagnostics(availableModels, foundModels)
    /\ last' = Last("complete", NoNode, Undefined)
    /\ UNCHANGED <<visitorVars, generatorVars>>
    /\ UNCHANGED <<impl, availableModels, options, visited, written, imported>>

\* visitAllSourceFiles after the last source file, src/src/parser.ts
Complete_parser_ts ==
    /\ impl = "parser_ts"
    /\ status = "traversing"
    /\ LET outcome == addHiddenManyToManyModels_parser_ts(availableModels, foundModels)
       IN  /\ foundModels' = outcome.fm
           /\ status' = IF outcome.threw THEN "thrown" ELSE "done"
    /\ diagnostics' =
         addHiddenManyToManyModelsDiagnostics_parser_ts(availableModels, foundModels)
    /\ last' = Last("complete", NoNode, Undefined)
    /\ UNCHANGED <<visitorVars, generatorVars>>
    /\ UNCHANGED <<impl, availableModels, options, visited, written, imported>>

Next ==
    \/ loadProjectConfig
    \/ VisitImport
    \/ VisitImport_parser_ts
    \/ VisitCall
    \/ VisitCall_parser_ts
    \/ Complete
    \/ Complete_parser_ts

Spec == Init /\ [][Next]_vars

TypeOK ==
    /\ impl \in Revisions
    /\ status \in {"new", "config_error", "traversing", "thrown", "done"}
    /\ visited \in 0..MaxNodes
    /\ \A i \in 1..Len(foundModels) : foundModels[i].isSelect \in BOOLEAN

(***************************************************************************)
(* Properties of the analysis.                                             *)
(***************************************************************************)
Registered == DOMAIN availableModels

SelectOnly(record) ==
    record.isSelect /\ ~record.isInsert /\ ~record.isUpdate /\ ~record.isDelete

\* The write flags a store holds, as (key, operation) pairs.
WriteFlags(fm) ==
    {<<fm[i].key, INSERT>> : i \in {j \in 1..Len(fm) : fm[j].isInsert}}
    \cup {<<fm[i].key, UPDATE>> : i \in {j \in 1..Len(fm) : fm[j].isUpdate}}
    \cup {<<fm[i].key, DELETE>> : i \in {j \in 1..Len(fm) : fm[j].isDelete}}

\* The latest step handled a call of the shape receiver.method(...).
LastIsMethodCall(l) ==
    /\ l.op = "call"
    /\ Len(l.node.expression.children) = 3
    /\ l.node.expression.children[2].kind = "DotToken"
    /\ l.node.expression.children[3].kind = "Identifier"

LastMethod(l) == l.node.expression.children[3].text
LastReceiver(l) == l.node.expression.firstToken

\* The registry declares User many-to-many Role through UserRole.
UserRolesThroughUserRole == availableModels \in {BasicModels, ChainModels}

\* C1: in every reachable state every record of the usage store has
\* select = true.
C1_SelectIsTrue ==
    \A i \in 1..Len(foundModels) : foundModels[i].isSelect = TRUE

C1_Witness ==
    /\ status = "done"
    /\ Len(foundModels) = 3
    /\ \E i \in 1..Len(foundModels) : HasWriteFlag(foundModels[i])

\* C2: no step removes a key of the store or turns a true insert, update or
\* delete flag to false.
C2_StoreOnlyGrows ==
    [][\A i \in 1..Len(foundModels) :
          /\ Has(foundModels', foundModels[i].key)
          /\ foundModels[i].isInsert => Get(foundModels', foundModels[i].key).isInsert
          /\ foundModels[i].isUpdate => Get(foundModels', foundModels[i].key).isUpdate
          /\ foundModels[i].isDelete => Get(foundModels', foundModels[i].key).isDelete]_vars

C2_Witness ==
    /\ status = "done"
    /\ \E i, j \in 1..Len(foundModels) :
          /\ foundModels[i].key \in written
          /\ foundModels[i].isDelete
          /\ foundModels[j].key \notin written
          /\ foundModels[j].key \notin imported

ImportOnly(entity) == entity \in imported /\ entity \notin written

\* The names the through options of the registry's many-to-many
\* associations yield.
JoinEntities(am) ==
    UNION {{getSequelizeModelNameFromThroughModel(am[m].associations[i].through) :
              i \in {j \in 1..Len(am[m].associations) :
                        am[m].associations[j].associationType = "BelongsToMany"}} :
           m \in DOMAIN am}

\* C3 as claimed: the record returned for a registered entity that is
\* referenced through imports only is {select} alone.
C3_ImportOnlyIsSelectOnly ==
    status = "done" =>
        \A entity \in Registered :
            ImportOnly(entity) =>
                Has(foundModels, entity) /\ SelectOnly(Get(foundModels, entity))

\* C3 as amended: ... for an entity that is not the join entity of a
\* many-to-many association of the registry; a join entity's record may
\* hold the flags the completion pass raises from the association's target.
C3_ImportOnlyNotJoinIsSelectOnly ==
    status = "done" =>
        \A entity \in Registered \ JoinEntities(availableModels) :
            ImportOnly(entity) =>
                Has(foundModels, entity) /\ SelectOnly(Get(foundModels, entity))

C3_Witness ==
    /\ status = "done"
    /\ \E entity \in Registered \ JoinEntities(availableModels) :
          /\ ImportOnly(entity)
          /\ SelectOnly(Get(foundModels, entity))
    /\ \E i \in 1..Len(foundModels) : HasWriteFlag(foundModels[i])

\* C4: after Entity.create(x) on a registered entity the analysis has not
\* thrown and the store holds a record for Entity with insert = true,
\* whatever was imported before.
C4_CreateSetsInsert ==
    \A entity \in Registered :
        (/\ LastIsMethodCall(last)
         /\ LastMethod(last) = "create"
         /\ LastReceiver(last).kind = "Identifier"
         /\ LastReceiver(last).text = entity)
        => /\ status # "thrown"
           /\ Has(foundModels, entity)
           /\ Get(foundModels, entity).isInsert

\* The table of direct write methods, as the specification states it.
DirectEffect(method) ==
    CASE method \in {"create", "bulkCreate", "findOrCreate", "findOrBuild",
                     "findCreateFind", "build"} -> {INSERT}
      [] method \in {"update", "save", "set", "increment", "decrement", "restore",
                     "bulkUpdate"} -> {UPDATE}
      [] method = "destroy" -> {DELETE}
      [] method = "upsert" -> {INSERT, UPDATE}
      [] OTHER -> {}

DirectMethodNames ==
    {"create", "bulkCreate", "findOrCreate", "findOrBuild", "findCreateFind", "build",
     "update", "save", "set", "increment", "decrement", "restore", "bulkUpdate",
     "destroy", "upsert"}

\* C5: a direct write call E.m(...) whose receiver resolves to the entity E
\* adds to the store exactly the flags of the table, on E's record, and
\* changes nothing else.
C5_DirectCallEffect ==
    [][(/\ LastIsMethodCall(last')
        /\ visited' = visited + 1
        /\ LastMethod(last') \in DirectMethodNames
        /\ last'.model # Undefined)
       => /\ KeySet(foundModels') = KeySet(foundModels) \cup {last'.model}
          /\ WriteFlags(foundModels') =
                WriteFlags(foundModels)
                \cup {<<last'.model, op>> : op \in DirectEffect(LastMethod(last'))}]_vars

\* C6: entity.destroy(), the receiver an identifier that is no entity name
\* and whose type's symbol is the registered entity Entity, sets delete on
\* Entity's record.
C6_DestroyByType ==
    (/\ LastIsMethodCall(last)
     /\ LastMethod(last) = "destroy"
     /\ LastReceiver(last).kind = "Identifier"
     /\ LastReceiver(last).text \notin Registered
     /\ LastReceiver(last).type.symbol \in Registered)
    => /\ Has(foundModels, LastReceiver(last).type.symbol)
       /\ Get(foundModels, LastReceiver(last).type.symbol).isDelete

\* The latest step handled receiver.verb("name", value, ...) with a
\* receiver that resolved to a model.
LastIsMixinCall(l, verb, name) ==
    /\ LastIsMethodCall(l)
    /\ LastMethod(l) = verb
    /\ l.model # Undefined
    /\ Len(l.node.arguments) >= 2
    /\ l.node.arguments[1] = Literal(name)

\* C7: user.$add("roles", role) with user resolving to User sets insert on
\* UserRole's record and leaves User's record, present or absent, as it was.
C7_AddTouchesJoinOnly ==
    [][(/\ UserRolesThroughUserRole
        /\ visited' = visited + 1
        /\ LastIsMixinCall(last', "$add", "roles")
        /\ last'.model = "User")
       => /\ Has(foundModels', "UserRole")
          /\ Get(foundModels', "UserRole").isInsert
          /\ Has(foundModels', "User") <=> Has(foundModels, "User")
          /\ Has(foundModels, "User") =>
                Get(foundModels', "User") = Get(foundModels, "User")]_vars

C7_Witness ==
    /\ UserRolesThroughUserRole
    /\ LastIsMixinCall(last, "$add", "roles")
    /\ last.model = "User"
    /\ Get(foundModels, "UserRole").isInsert
    /\ ~Has(foundModels, "User")

\* The effect table of the mixin verbs, as the specification states it;
\* through is Undefined when no join entity resolved.
MixinEffect(verb, target, through) ==
    CASE verb = "$add" ->
            IF through # Undefined THEN {<<through, INSERT>>} ELSE {<<target, UPDATE>>}
      [] verb = "$create" ->
            IF through # Undefined THEN {<<target, INSERT>>, <<through, INSERT>>}
            ELSE {<<target, INSERT>>}
      [] verb = "$set" ->
            IF through # Undefined
            THEN {<<through, INSERT>>, <<through, UPDATE>>, <<through, DELETE>>}
            ELSE {<<target, UPDATE>>}
      [] verb = "$remove" ->
            IF through # Undefined THEN {<<through, DELETE>>} ELSE {<<target, UPDATE>>}
      [] OTHER -> {}

\* The association a mixin call names on the model its receiver resolved to.
NamedAssociation(l) == AssociationOf(availableModels[l.model], l.node.arguments[1].text)

\* The join entity of an association: the registered entity its through
\* option names, for a many-to-many association.
ResolvedJoin(association) ==
    IF /\ association.associationType = "BelongsToMany"
       /\ getSequelizeModelNameFromThroughModel(association.through) \in Registered
    THEN getSequelizeModelNameFromThroughModel(association.through)
    ELSE Undefined

LastIsMixinOnAssociation(l) ==
    /\ LastIsMethodCall(l)
    /\ LastMethod(l) \in {"$add", "$create", "$set", "$remove"}
    /\ l.model # Undefined
    /\ Len(l.node.arguments) >= 2
    /\ l.node.arguments[1].kind = "StringLiteral"
    /\ NamedAssociation(l) # NoAssociation

\* C8 as claimed: a mixin call naming an existing association by a string
\* literal, with two arguments or more, adds exactly the flags of the
\* effect table.
C8_MixinEffect ==
    [][(/\ visited' = visited + 1
        /\ LastIsMixinOnAssociation(last'))
       => WriteFlags(foundModels') =
            WriteFlags(foundModels)
            \cup MixinEffect(LastMethod(last'), NamedAssociation(last').target.name,
                             ResolvedJoin(NamedAssociation(last')))]_vars

\* C8 as amended: ... naming an existing association whose target is a
\* registered entity ...
C8_MixinEffectRegisteredTarget ==
    [][(/\ visited' = visited + 1
        /\ LastIsMixinOnAssociation(last')
        /\ NamedAssociation(last').target.name \in Registered)
       => WriteFlags(foundModels') =
            WriteFlags(foundModels)
            \cup MixinEffect(LastMethod(last'), NamedAssociation(last').target.name,
                             ResolvedJoin(NamedAssociation(last')))]_vars

C8_Witness ==
    /\ LastIsMixinOnAssociation(last)
    /\ LastMethod(last) = "$set"
    /\ ResolvedJoin(NamedAssociation(last)) = "UserRole"
    /\ {<<"UserRole", INSERT>>, <<"UserRole", UPDATE>>, <<"UserRole", DELETE>>}
          \subseteq WriteFlags(foundModels)
    /\ ~HasWriteFlag(Get(foundModels, NamedAssociation(last).target.name))

\* The completion pass ran to its end in this step.
CompletionStep == status = "traversing" /\ status' = "done"

NeverReferenced(entity) == entity \notin imported /\ entity \notin written

\* C9 as claimed: with UserRole never referenced and Role holding insert
\* at the end of traversal, the completed store holds UserRole with insert.
C9_HiddenJoinInherits ==
    [][(/\ CompletionStep
        /\ UserRolesThroughUserRole
        /\ NeverReferenced("UserRole")
        /\ Has(foundModels, "Role")
        /\ Get(foundModels, "Role").isInsert)
       => /\ Has(foundModels', "UserRole")
          /\ Get(foundModels', "UserRole").isInsert]_vars

\* C9 as amended: ... and User holding a record at the end of traversal ...
C9_HiddenJoinInheritsWithOwner ==
    [][(/\ CompletionStep
        /\ UserRolesThroughUserRole
        /\ NeverReferenced("UserRole")
        /\ Has(foundModels, "User")
        /\ Has(foundModels, "Role")
        /\ Get(foundModels, "Role").isInsert)
       => /\ Has(foundModels', "UserRole")
          /\ Get(foundModels', "UserRole").isInsert]_vars

C9_Witness ==
    /\ status = "done"
    /\ UserRolesThroughUserRole
    /\ NeverReferenced("UserRole")
    /\ "Role" \in written
    /\ Has(foundModels, "User")
    /\ Get(foundModels, "Role").isInsert
    /\ Get(foundModels, "UserRole").isInsert

\* The completion pass of the revision that runs.
CompletionPass(fm) ==
    IF impl = "part_002" THEN addHiddenManyToManyModels(availableModels, fm)
    ELSE addHiddenManyToManyModels_parser_ts(availableModels, fm)

SameRecords(a, b) ==
    /\ KeySet(a) = KeySet(b)
    /\ Len(a) = Len(b)
    /\ \A key \in KeySet(a) : Get(a, key) = Get(b, key)

\* C10: a second completion pass over a completed store changes no key and
\* no flag.
C10_CompletionIdempotent ==
    status = "done" =>
        /\ ~CompletionPass(foundModels).threw
        /\ SameRecords(CompletionPass(foundModels).fm, foundModels)

(***************************************************************************)
(* The analysis as a function of the sequence of nodes it visits.          *)
(***************************************************************************)
\* nodeVisitor on one node, in revision v, from the outcome of the nodes
\* before it; nothing runs after a throw.
nodeVisitor(v, am, opts, run, node) ==
    IF run.threw THEN run
    ELSE IF node.kind = "ImportDeclaration"
    THEN Ok(IF v = "part_002" THEN processImportDeclarationNode(am, opts, run.fm, node)
            ELSE processImportDeclarationNode_parser_ts(am, opts, run.fm, node))
    ELSE LET outcome == IF v = "part_002" THEN processCallExpression(am, run.fm, node)
                        ELSE findAllWriteOperations(am, run.fm, node)
         IN  [fm |-> outcome.fm, threw |-> outcome.threw]

\* visitAllSourceFiles: the nodes in order, then the completion pass.
RECURSIVE visitAllSourceFiles(_, _, _, _, _)
visitAllSourceFiles(v, am, opts, run, nodes) ==
    IF nodes # <<>>
    THEN visitAllSourceFiles(v, am, opts, nodeVisitor(v, am, opts, run, Head(nodes)),
                             Tail(nodes))
    ELSE IF run.threw THEN run
    ELSE IF v = "part_002" THEN addHiddenManyToManyModels(am, run.fm)
    ELSE addHiddenManyToManyModels_parser_ts(am, run.fm)

\* Two analyses return the same mapping: both return a store, with the
\* same keys and the same record under each key, or neither returns one.
SameMapping(a, b) ==
    /\ a.threw = b.threw
    /\ ~a.threw => SameRecords(a.fm, b.fm)

\* C11: the store returned for two nodes visited in one order is the
\* mapping returned for the same two nodes visited in the other order.
\* Stated on the state reached after the first node: whatever node comes
\* second, visiting it first gives the same final mapping.
C11_OrderIndependent ==
    (status = "traversing" /\ visited = 1) =>
        \A second \in ImportNodes \cup CallNodes :
            SameMapping(
                visitAllSourceFiles(impl, availableModels, options,
                                    Ok(foundModels), <<second>>),
                visitAllSourceFiles(impl, availableModels, options,
                                    Ok(<<>>), <<second, last.node>>))

\* The receiver of a call matches no registered entity: neither revision's
\* resolver returns a model for it.
Unresolvable(token) ==
    /\ findModelFromNode(availableModels, token) = Undefined
    /\ findModelFromNode_parser_ts(availableModels, token).model = Undefined

\* The latest step handled receiver.method(...) with a write-method name
\* and a receiver that matches no registered entity.
LastIsUnresolvableWriteCall(l) ==
    /\ LastIsMethodCall(l)
    /\ isSequelizeModelWriteMethod(LastMethod(l))
    /\ Unresolvable(LastReceiver(l))

\* C12: a write-method call whose receiver matches no registered entity
\* emits a diagnostic, leaves the store as it was, and the traversal goes on.
C12_UnresolvableReceiver ==
    [][(/\ visited' = visited + 1
        /\ LastIsUnresolvableWriteCall(last'))
       => /\ diagnostics' # <<>>
          /\ foundModels' = foundModels
          /\ status' = "traversing"]_vars

\* The latest step handled a mixin call, on a receiver that resolved to a
\* model, whose first argument is no string literal or names no association
\* of that model.
LastIsMixinWithBadName(l) ==
    /\ LastIsMethodCall(l)
    /\ isSequelizeTypescriptGeneratedWriteMethod(LastMethod(l))
    /\ l.model # Undefined
    /\ Len(l.node.arguments) >= 1
    /\ \/ l.node.arguments[1].kind # "StringLiteral"
       \/ NamedAssociation(l) = NoAssociation

\* C13 as claimed: such a call emits a diagnostic and changes nothing in
\* the store, however many arguments it has.
C13_BadAssociationNameSkipped ==
    [][(/\ visited' = visited + 1
        /\ LastIsMixinWithBadName(last'))
       => /\ diagnostics' # <<>>
          /\ foundModels' = foundModels]_vars

\* C13 as amended: such a call with two arguments or more emits the
\* diagnostic for its case (name not a string literal, association not
\* found), changes nothing in the store, and the traversal goes on.
C13_BadAssociationNameSkippedTwoArguments ==
    [][(/\ visited' = visited + 1
        /\ LastIsMixinWithBadName(last')
        /\ Len(last'.node.arguments) >= 2)
       => /\ diagnostics' =
                (IF last'.node.arguments[1].kind # "StringLiteral"
                 THEN <<WarnNotStringLiteral>> ELSE <<WarnNoAssociation>>)
          /\ foundModels' = foundModels
          /\ status' = "traversing"]_vars

C13_Witness ==
    /\ LastIsMixinWithBadName(last)
    /\ Len(last.node.arguments) >= 2
    /\ last.node.arguments[1].kind = "StringLiteral"
    /\ diagnostics = <<WarnNoAssociation>>
    /\ ~Has(foundModels, last.model)
    /\ Len(foundModels) = 1

\* The latest step handled a mixin call naming a many-to-many association
\* whose through option yields no registered entity.
LastIsMixinOnUnresolvedJoin(l) ==
    /\ LastIsMixinOnAssociation(l)
    /\ NamedAssociation(l).associationType = "BelongsToMany"
    /\ ResolvedJoin(NamedAssociation(l)) = Undefined

\* The diagnostics that report a join entity that does not resolve.
JoinDiagnostics == {ErrorInvalidThrough, ErrorNoThroughModel, WarnNoThroughModel}

\* C14 as claimed: such a call emits a diagnostic and adds to the store
\* exactly the target's own effect, on a record of the target.
C14_UnresolvedJoinTargetEffect ==
    [][(/\ visited' = visited + 1
        /\ LastIsMixinOnUnresolvedJoin(last'))
       => /\ diagnostics' # <<>>
          /\ Has(foundModels', NamedAssociation(last').target.name)
          /\ WriteFlags(foundModels') =
                WriteFlags(foundModels)
                \cup MixinEffect(LastMethod(last'), NamedAssociation(last').target.name,
                                 Undefined)]_vars

\* C14 as amended: ... a many-to-many association whose target is a
\* registered entity and whose join entity does not resolve ...; the
\* diagnostic is one about the join entity.
C14_UnresolvedJoinTargetEffectRegisteredTarget ==
    [][(/\ visited' = visited + 1
        /\ LastIsMixinOnUnresolvedJoin(last')
        /\ NamedAssociation(last').target.name \in Registered)
       => /\ \E i \in 1..Len(diagnostics') : diagnostics'[i] \in JoinDiagnostics
          /\ Has(foundModels', NamedAssociation(last').target.name)
          /\ WriteFlags(foundModels') =
                WriteFlags(foundModels)
                \cup MixinEffect(LastMethod(last'), NamedAssociation(last').target.name,
                                 Undefined)
          /\ status' = "traversing"]_vars

C14_Witness ==
    /\ LastIsMixinOnUnresolvedJoin(last)
    /\ LastMethod(last) = "$remove"
    /\ NamedAssociation(last).as = "labels"
    /\ ErrorInvalidThrough \in {diagnostics[i] : i \in 1..Len(diagnostics)}
    /\ WriteFlags(foundModels) = {<<"Role", UPDATE>>}

\* The recoverable diagnostics: an entity reference that does not resolve
\* (a receiver, an association's target), an association name that is no
\* string literal or names no association, a join entity that does not
\* resolve.  (The diagnostic for an unrecognised mixin verb sits in a switch
\* default that no call reaches: the verb is tested before.)
RecoverableDiagnostics ==
    {ErrorNoModel, ErrorNoTargetModel, WarnNotStringLiteral, WarnNoAssociation}
    \cup JoinDiagnostics

Emitted(log) == {log[i] : i \in 1..Len(log)}

\* C15 as claimed: a call that emits a recoverable diagnostic leaves the
\* store as it was, and the traversal goes on.
C15_DiagnosticMeansNoEffect ==
    [][(/\ visited' = visited + 1
        /\ last'.op = "call"
        /\ Emitted(diagnostics') \cap RecoverableDiagnostics # {})
       => /\ foundModels' = foundModels
          /\ status' = "traversing"]_vars

\* C15 as amended: ... a recoverable diagnostic other than the one for a
\* join entity that does not resolve ...
C15_DiagnosticButJoinMeansNoEffect ==
    [][(/\ visited' = visited + 1
        /\ last'.op = "call"
        /\ Emitted(diagnostics') \cap (RecoverableDiagnostics \ JoinDiagnostics) # {})
       => /\ foundModels' = foundModels
          /\ status' = "traversing"]_vars

C15_Witness ==
    /\ last.op = "call"
    /\ diagnostics = <<ErrorNoTargetModel>>
    /\ status = "traversing"
    /\ visited = 2
    /\ Len(foundModels) = 1
    /\ HasWriteFlag(foundModels[1])

\* C16: once the configuration has loaded, no step of the analysis ends in
\* a thrown failure.
C16_NeverThrows == status # "thrown"

\* C17: when the configuration file is missing or cannot be parsed, loading
\* it ends the analysis with a thrown error: no node has been visited, the
\* store is empty, and no step follows.
C17_ConfigFailureAborts ==
    [][/\ (/\ last'.op = "loadProjectConfig"
           /\ last'.model \in {"missing", "unparsable"})
          => /\ status' = "config_error"
             /\ visited' = 0
             /\ foundModels' = <<>>
       /\ status # "config_error"]_vars

\* C18: no step of the analysis changes the entity registry: the registered
\* names, their tables and their associations stay as they were handed in.
C18_RegistryNeverChanged == [][availableModels' = availableModels]_vars

C18_Witness ==
    /\ status = "done"
    /\ imported # {}
    /\ written # {}
    /\ \E i \in 1..Len(foundModels) :
          /\ foundModels[i].key \notin imported \cup written
          /\ HasWriteFlag(foundModels[i])

\* C19: a call whose callee is not receiver, dot, method identifier (a plain
\* call, a computed access, an optional-chaining access) is rejected before
\* the receiver is resolved: no model, no diagnostic, the store as it was.
C19_OtherCalleeRejected ==
    [][(/\ visited' = visited + 1
        /\ last'.op = "call"
        /\ ~LastIsMethodCall(last'))
       => /\ foundModels' = foundModels
          /\ last'.model = Undefined
          /\ diagnostics' = <<>>
          /\ status' = "traversing"]_vars

\* The latest step handled receiver.method(...) with a method name in
\* neither the write-method table nor the mixin vocabulary.
LastIsNonWriteMethodCall(l) ==
    /\ LastIsMethodCall(l)
    /\ LastMethod(l) \notin DefaultWriteMethods \cup MixinMethods

\* C20: a method call whose name is in neither vocabulary leaves the store
\* as it was and emits no diagnostic, whatever its receiver; the traversal
\* goes on.
C20_NonWriteMethodIgnored ==
    [][(/\ visited' = visited + 1
        /\ LastIsNonWriteMethodCall(last'))
       => /\ foundModels' = foundModels
          /\ diagnostics' = <<>>
          /\ last'.model = Undefined
          /\ status' = "traversing"]_vars

C20_Witness ==
    /\ LastIsNonWriteMethodCall(last)
    /\ LastReceiver(last) = UserClass
    /\ visited = 2
    /\ status = "traversing"
    /\ Len(foundModels) = 1
    /\ foundModels[1].key = "Role"
    /\ foundModels[1].isDelete

(***************************************************************************)
(* The completion pass, one association at a time.                         *)
(***************************************************************************)
\* The outcome of the pass of the revision that runs over the first
\* keys of the snapshot only.
CompletionPassOver(fm, keys) ==
    IF impl = "part_002" THEN HiddenModels(availableModels, fm, keys)
    ELSE HiddenModels_parser_ts(availableModels, fm, keys)

\* The outcome of the pass right before it handles association j of the
\* i-th key of the store fm it started from.
CompletionBefore(fm, i, j) ==
    LET before == CompletionPassOver(fm, SubSeq(Keys(fm), 1, i - 1))
        associations == SubSeq(availableModels[Keys(fm)[i]].associations, 1, j - 1)
    IN  IF before.threw THEN before
        ELSE IF impl = "part_002"
        THEN HiddenAssociations(availableModels, before.fm, associations)
        ELSE HiddenAssociations_parser_ts(availableModels, before.fm, associations)

\* The outcome of handling that association.
CompletionAt(fm, i, j) ==
    LET association == availableModels[Keys(fm)[i]].associations[j]
    IN  IF impl = "part_002"
        THEN HiddenAssociation(availableModels, CompletionBefore(fm, i, j).fm, association)
        ELSE HiddenAssociation_parser_ts(availableModels, CompletionBefore(fm, i, j).fm,
                                         association)

\* The associations the pass over fm reaches: (i, j) for association j of
\* the i-th key, when nothing has thrown before.
CompletionReaches(fm) ==
    {p \in UNION {{<<i, j>> : j \in 1..Len(availableModels[Keys(fm)[i]].associations)} :
                    i \in {k \in 1..Len(fm) : Keys(fm)[k] \in Registered}} :
        ~CompletionBefore(fm, p[1], p[2]).threw}

RecordFlags(record) == <<record.isInsert, record.isUpdate, record.isDelete>>

\* No record of before is missing from after or has lost a flag.
NoFlagLowered(before, after) ==
    \A key \in KeySet(before) :
        /\ Has(after, key)
        /\ Get(before, key).isSelect => Get(after, key).isSelect
        /\ Get(before, key).isInsert => Get(after, key).isInsert
        /\ Get(before, key).isUpdate => Get(after, key).isUpdate
        /\ Get(before, key).isDelete => Get(after, key).isDelete

\* C21: in the completion pass over the store at the end of traversal, a
\* record is created only while a many-to-many association of an entity of
\* that store is handled, for the join entity of the association, and only
\* when the association's target has a record; the created record carries
\* the insert, update and delete flags the target has at that moment; and no
\* flag of any record goes from true to false.
C21_JoinRecordCreation ==
    status = "traversing" =>
        /\ \A p \in CompletionReaches(foundModels) :
            LET before == CompletionBefore(foundModels, p[1], p[2]).fm
                after == CompletionAt(foundModels, p[1], p[2]).fm
                association ==
                    availableModels[Keys(foundModels)[p[1]]].associations[p[2]]
            IN  /\ NoFlagLowered(before, after)
                /\ \A key \in KeySet(after) \ KeySet(before) :
                      /\ association.associationType = "BelongsToMany"
                      /\ key = getSequelizeModelNameFromThroughModel(association.through)
                      /\ Has(before, association.target.name)
                      /\ RecordFlags(Get(after, key)) =
                            RecordFlags(Get(before, association.target.name))
                      /\ Len(after) = Len(before) + 1
        /\ NoFlagLowered(foundModels, CompletionPass(foundModels).fm)
        /\ \A key \in KeySet(CompletionPass(foundModels).fm) \ KeySet(foundModels) :
              \E p \in CompletionReaches(foundModels) :
                  key \in KeySet(CompletionAt(foundModels, p[1], p[2]).fm)
                          \ KeySet(CompletionBefore(foundModels, p[1], p[2]).fm)

C21_Witness ==
    /\ status = "done"
    /\ last.op = "complete"
    /\ NeverReferenced("UserRole")
    /\ Has(foundModels, "UserRole")
    /\ RecordFlags(Get(foundModels, "UserRole")) = <<TRUE, FALSE, TRUE>>
    /\ RecordFlags(Get(foundModels, "Role")) = <<FALSE, FALSE, TRUE>>
    /\ RecordFlags(Get(foundModels, "User")) = <<TRUE, FALSE, FALSE>>

\* The registered entities a specifier matches as claimed: by its local
\* name or by its original exported name.
MatchedByAliasOrName(specifier) == {specifier.name, specifier.propertyName} \cap Registered

\* The number of records the store holds under a key.
RecordsOf(fm, key) == Cardinality({i \in 1..Len(fm) : fm[i].key = key})

\* C23: an import specifier whose local alias or original exported name is
\* a registered entity name leaves the store with exactly one record of that
\* entity, and with the record the entity had when it had one.
C23_ImportMatchesAliasOrName ==
    [][(/\ visited' = visited + 1
        /\ last'.op = "import"
        /\ ~SkippedByModuleFilter(options, last'.node))
       => \A i \in 1..Len(NamedImports(last'.node)) :
            \A entity \in MatchedByAliasOrName(NamedImports(last'.node)[i]) :
                /\ RecordsOf(foundModels', entity) = 1
                /\ Has(foundModels, entity)
                      => Get(foundModels', entity) = Get(foundModels, entity)]_vars

\* C24: every key of the store is the name of a registered entity, no two
\* records share a key, and each record's table is the table name of the
\* registered entity of its key.
C24_KeysAreRegisteredEntities ==
    \A i \in 1..Len(foundModels) :
        /\ foundModels[i].key \in Registered
        /\ foundModels[i].key = availableModels[foundModels[i].key].name
        /\ RecordsOf(foundModels, foundModels[i].key) = 1
        /\ foundModels[i].table =
              getSequelizeModelTableName(availableModels[foundModels[i].key])

(***************************************************************************)
(* The SQL generator: generateSQLCommandsFromFoundModels.                  *)
(* A command is kept as the parts of its template literal, in order; its   *)
(* text is their concatenation.                                            *)
(***************************************************************************)
SQLGeneratorOptionList ==
    <<NoSQLOptions,
      "clearAllGrants" :> TRUE,
      "clearAllGrants" :> FALSE,
      "flushPrivileges" :> TRUE,
      "flushPrivileges" :> FALSE,
      "databaseUserHost" :> "localhost",
      ("clearAllGrants" :> TRUE) @@ ("flushPrivileges" :> FALSE),
      ("clearAllGrants" :> TRUE) @@ ("databaseUserHost" :> "10.0.0.1")>>

DatabaseUsernames == {"app", "report"}

\* if (!options.databaseUserHost) options.databaseUserHost = "%"
\* if (options.flushPrivileges === undefined) options.flushPrivileges = true
SQLOptionsWithDefaults(opts) ==
    [clearAllGrants |->
        IF "clearAllGrants" \in DOMAIN opts THEN opts["clearAllGrants"] ELSE FALSE,
     flushPrivileges |->
        IF "flushPrivileges" \in DOMAIN opts THEN opts["flushPrivileges"] ELSE TRUE,
     databaseUserHost |->
        IF "databaseUserHost" \in DOMAIN opts /\ opts["databaseUserHost"] # ""
        THEN opts["databaseUserHost"] ELSE "%"]

\* Mutant: SELECT is taken for granted and left out of the permissions.
Permissions_WriteOnly(record) ==
    (IF record.isInsert THEN <<"INSERT">> ELSE <<>>)
    \o (IF record.isUpdate THEN <<"UPDATE">> ELSE <<>>)
    \o (IF record.isDelete THEN <<"DELETE">> ELSE <<>>)

\* [isSelect ? "SELECT" : "", ...].filter(Boolean)
Permissions(record) ==
    (IF record.isSelect THEN <<"SELECT">> ELSE <<>>)
    \o (IF record.isInsert THEN <<"INSERT">> ELSE <<>>)
    \o (IF record.isUpdate THEN <<"UPDATE">> ELSE <<>>)
    \o (IF record.isDelete THEN <<"DELETE">> ELSE <<>>)

\* Object.values(foundModels).map(...)
tablePermissions(fm) ==
    [i \in 1..Len(fm) |-> [table |-> fm[i].table, permissions |-> Permissions(fm[i])]]

RevokeCommand(databaseUsername) ==
    <<"REVOKE SELECT, INSERT, UPDATE, DELETE ON *.* FROM '", databaseUsername, "'@'%';">>

GrantCommand(permission, table, databaseUsername) ==
    <<"GRANT ", permission, " ON ", table, " TO '", databaseUsername, "'@'%';">>

FlushCommand == <<"FLUSH PRIVILEGES;">>

\* permissions.map(permission => `GRANT ...`) for one table
TableGrants(entry, databaseUsername) ==
    [k \in 1..Len(entry.permissions) |->
        GrantCommand(entry.permissions[k], entry.table, databaseUsername)]

\* The array grantCommands before it is joined.
grantCommands(fm, databaseUsername, opts) ==
    (IF SQLOptionsWithDefaults(opts).clearAllGrants
     THEN <<RevokeCommand(databaseUsername)>> ELSE <<>>)
    \o Flatten([i \in 1..Len(fm) |-> TableGrants(tablePermissions(fm)[i], databaseUsername)])
    \o (IF SQLOptionsWithDefaults(opts).flushPrivileges THEN <<FlushCommand>> ELSE <<>>)

\* The text of a template literal: its parts, concatenated.
RECURSIVE CommandText(_)
CommandText(parts) ==
    IF parts = <<>> THEN "" ELSE Head(parts) \o CommandText(Tail(parts))

\* grantCommands.join("\n")
RECURSIVE JoinLines(_)
JoinLines(commands) ==
    IF commands = <<>> THEN ""
    ELSE IF Len(commands) = 1 THEN CommandText(Head(commands))
    ELSE CommandText(Head(commands)) \o "\n" \o JoinLines(Tail(commands))

\* helpers.ts, generateSQLCommandsFromFoundModels
generateSQLCommandsFromFoundModels(fm, databaseUsername, opts) ==
    JoinLines(grantCommands(fm, databaseUsername, opts))

(***************************************************************************)
(* The SQL generator as a state machine: a store is handed in with a user  *)
(* name and options, and the commands are generated from it.               *)
(***************************************************************************)
MaxRecords == 2     \* records in a store handed to the SQL generator

StoreKeys == DOMAIN BasicModels

\* A record as the parser or a saved store may hold it.
StoreRecords ==
    {[key |-> key, table |-> getSequelizeModelTableName(BasicModels[key]),
      isSelect |-> flags[1], isInsert |-> flags[2], isUpdate |-> flags[3],
      isDelete |-> flags[4]] :
        key \in StoreKeys, flags \in BOOLEAN \X BOOLEAN \X BOOLEAN \X BOOLEAN}

\* The stores of at most MaxRecords records, one per key.
Stores ==
    {fm \in UNION {[1..n -> StoreRecords] : n \in 0..MaxRecords} :
        \A i, j \in 1..Len(fm) : fm[i].key = fm[j].key => i = j}

InitSQL ==
    /\ impl = "part_002"
    /\ availableModels = BasicModels
    /\ options = [onlyFromSpecificModuleImport |-> Undefined]
    /\ status = "done"
    /\ foundModels \in Stores
    /\ visited = 0
    /\ last = Last("none", NoNode, Undefined)
    /\ written = {}
    /\ imported = {}
    /\ diagnostics = <<>>
    /\ program = <<>>
    /\ sourceFile = 0
    /\ pending = <<>>
    /\ trace = <<>>
    /\ completions = 0
    /\ sqlUsername \in DatabaseUsernames
    /\ \E i \in 1..Len(SQLGeneratorOptionList) : sqlOptions = SQLGeneratorOptionList[i]
    /\ query = NoQuery

\* generateSQLCommandsFromFoundModels(foundModels, databaseUsername, options)
GenerateSQL ==
    /\ query = NoQuery
    /\ query' = [commands |-> grantCommands(foundModels, sqlUsername, sqlOptions),
                 text |-> generateSQLCommandsFromFoundModels(foundModels, sqlUsername,
                                                             sqlOptions)]
    /\ UNCHANGED <<impl, availableModels, options, status, foundModels, visited, last,
                   written, imported, diagnostics, visitorVars, sqlUsername, sqlOptions>>

NextSQL == GenerateSQL

SpecSQL == InitSQL /\ [][NextSQL]_vars

IsGrant(command) == command[1] = "GRANT "
IsRevoke(command) == command[1] = "REVOKE SELECT, INSERT, UPDATE, DELETE ON *.* FROM '"

Operations == {"SELECT", "INSERT", "UPDATE", "DELETE"}

FlagOf(record, operation) ==
    CASE operation = "SELECT" -> record.isSelect
      [] operation = "INSERT" -> record.isInsert
      [] operation = "UPDATE" -> record.isUpdate
      [] operation = "DELETE" -> record.isDelete

\* The GRANT commands for an operation on a table, and the (record, flag)
\* pairs of the store with that operation set on that table.
GrantsNaming(commands, operation, table) ==
    {k \in 1..Len(commands) :
        IsGrant(commands[k]) /\ commands[k][2] = operation /\ commands[k][4] = table}

PairsNaming(fm, operation, table) ==
    {i \in 1..Len(fm) : fm[i].table = table /\ FlagOf(fm[i], operation)}

ClearAllGrantsSet == "clearAllGrants" \in DOMAIN sqlOptions /\ sqlOptions["clearAllGrants"]
FlushPrivilegesNotFalse ==
    ~("flushPrivileges" \in DOMAIN sqlOptions /\ ~sqlOptions["flushPrivileges"])

\* C25: the generated commands are: a revoke-all first exactly when
\* clearAllGrants is set, then one GRANT per record and flag that is true,
\* naming the flag's operation and the record's table, then FLUSH PRIVILEGES
\* last exactly when flushPrivileges is not false; without options there is
\* no revoke-all and there is a flush.
C25_OneGrantPerFlag ==
    query # NoQuery =>
        LET commands == query.commands
            first == IF ClearAllGrantsSet THEN 2 ELSE 1
            final == IF FlushPrivilegesNotFalse THEN Len(commands) - 1 ELSE Len(commands)
        IN  /\ ClearAllGrantsSet <=> (commands # <<>> /\ IsRevoke(commands[1]))
            /\ FlushPrivilegesNotFalse
                  <=> (commands # <<>> /\ commands[Len(commands)] = FlushCommand)
            /\ \A k \in 1..Len(commands) : (k \in first..final) <=> IsGrant(commands[k])
            /\ \A operation \in Operations :
                  \A table \in {foundModels[i].table : i \in 1..Len(foundModels)}
                               \cup {commands[k][4] : k \in first..final} :
                      Cardinality(GrantsNaming(commands, operation, table)) =
                          Cardinality(PairsNaming(foundModels, operation, table))

C25_Witness ==
    /\ query # NoQuery
    /\ ClearAllGrantsSet
    /\ ~FlushPrivilegesNotFalse
    /\ Len(foundModels) = 2
    /\ foundModels[1].isSelect /\ foundModels[1].isInsert /\ ~foundModels[1].isDelete
    /\ ~foundModels[2].isSelect /\ foundModels[2].isDelete
    /\ Len(query.commands) =
          1 + Cardinality({<<i, operation>> \in (1..2) \X Operations :
                              FlagOf(foundModels[i], operation)})

\* The host the commands are to name: the databaseUserHost option when it
\* is given, "%" when it is not.
ConfiguredHost ==
    IF "databaseUserHost" \in DOMAIN sqlOptions THEN sqlOptions["databaseUserHost"] ELSE "%"

\* C26: every REVOKE and GRANT command names the user as the given username
\* at the configured host.
C26_UserAtConfiguredHost ==
    query # NoQuery =>
        LET user == "'" \o sqlUsername \o "'@'" \o ConfiguredHost \o "';"
        IN  \A k \in 1..Len(query.commands) :
              /\ IsGrant(query.commands[k]) =>
                    CommandText(query.commands[k]) =
                        "GRANT " \o query.commands[k][2] \o " ON " \o query.commands[k][4]
                        \o " TO " \o user
              /\ IsRevoke(query.commands[k]) =>
                    CommandText(query.commands[k]) =
                        "REVOKE SELECT, INSERT, UPDATE, DELETE ON *.* FROM " \o user

(***************************************************************************)
(* The entity resolver over the receivers a call can have.                 *)
(***************************************************************************)
\* class Audited extends User<Role>: type argument and base both registered
GenericOverEntity ==
    Token("Identifier", "audited", TypeOf("Audited",
        <<Declaration("ClassDeclaration",
            <<<<HeritageType(TypeArguments(<<"Role">>), BaseIdentifier("User"))>>>>)>>))
\* interface Shared extends Pick<Role, 'id'>, User
TwoHeritageTypes ==
    Token("Identifier", "shared", TypeOf("Shared",
        <<Declaration("InterfaceDeclaration",
            <<<<HeritageType(TypeArguments(<<"Role", "'id'">>), BaseIdentifier("Pick")),
                HeritageType(NoTypeArguments, BaseIdentifier("User"))>>>>)>>))
\* const Role: User, the text names one entity and the type another
NamedLikeAnEntity == Token("Identifier", "Role", TypeOf("User", <<>>))

ResolverTokens ==
    {UserClass, RoleClass, UserInstance, RoleInstance, OmitInterface, PickTypeClass, SubClass,
     PlainInterface, UnrelatedInterface, GenericClass, DeepClass, MappedAlias, Untyped,
     GenericOverEntity, TwoHeritageTypes, NamedLikeAnEntity}

\* What the resolver of the revision that runs ends with for a token.
Resolve(token) ==
    IF impl = "part_002" THEN Found(findModelFromNode(availableModels, token))
    ELSE findModelFromNode_parser_ts(availableModels, token)

FirstOf(texts) ==
    IF \E i \in 1..Len(texts) : texts[i] \in Registered
    THEN texts[CHOOSE i \in 1..Len(texts) :
                  /\ texts[i] \in Registered
                  /\ \A j \in 1..(i - 1) : texts[j] \notin Registered]
    ELSE Undefined

\* Strategy 3 for one extends/implements type reference: the generic type
\* arguments first, then the arguments of a call-expression base, otherwise
\* a plain-identifier base.
ByHeritageType(t) ==
    IF t.typeArguments.present /\ FirstOf(t.typeArguments.items) # Undefined
    THEN FirstOf(t.typeArguments.items)
    ELSE IF t.expression.kind = "CallExpression" THEN FirstOf(t.expression.arguments)
    ELSE IF t.expression.kind = "Identifier" THEN FirstOf(<<t.expression.text>>)
    ELSE Undefined

\* Strategy 3: the interface and class declarations of the type's symbol,
\* one level of inheritance deep.
ByHeritage(token) ==
    LET types == Flatten([i \in 1..Len(token.type.declarations) |->
                    IF token.type.declarations[i].kind
                          \in {"InterfaceDeclaration", "ClassDeclaration"}
                    THEN HeritageTypes(token.type.declarations[i]) ELSE <<>>])
    IN  IF \E i \in 1..Len(types) : ByHeritageType(types[i]) # Undefined
        THEN ByHeritageType(types[CHOOSE i \in 1..Len(types) :
                                    /\ ByHeritageType(types[i]) # Undefined
                                    /\ \A j \in 1..(i - 1) :
                                          ByHeritageType(types[j]) = Undefined])
        ELSE Undefined

\* The first strategy that succeeds: the text, the type's symbol, heritage.
FirstStrategy(token) ==
    IF token.text \in Registered THEN token.text
    ELSE IF token.type.symbol \in Registered THEN token.type.symbol
    ELSE ByHeritage(token)

\* C27: for every receiver, the resolver returns what the first strategy
\* that succeeds returns, in the order text, type symbol, heritage.
C27_ResolverOrder ==
    status = "traversing" =>
        \A token \in ResolverTokens : Resolve(token) = Found(FirstStrategy(token))

(***************************************************************************)
(* The store the completion pass leaves.                                   *)
(***************************************************************************)
\* Each of the insert, update and delete flags that is true in target is
\* true in join.
FlagsInclude(join, target) ==
    \A i \in 1..3 : RecordFlags(target)[i] => RecordFlags(join)[i]

\* The many-to-many associations of the entity key whose join entity
\* resolves and whose target has a record in fm.
JoinedAssociations(key, fm) ==
    {i \in 1..Len(availableModels[key].associations) :
        /\ ResolvedJoin(availableModels[key].associations[i]) # Undefined
        /\ Has(fm, availableModels[key].associations[i].target.name)}

\* C30: when the completion pass has finished, for every entity that was in
\* the store and every many-to-many association of it whose target has a
\* record in the final store and whose join entity resolves, the join entity
\* has a record holding every insert, update and delete flag of the target's
\* record in the final store.
C30_JoinCoversTarget ==
    [][(status = "traversing" /\ status' = "done") =>
        \A key \in KeySet(foundModels) \cap Registered :
            \A i \in JoinedAssociations(key, foundModels') :
                LET association == availableModels[key].associations[i]
                IN  /\ Has(foundModels', ResolvedJoin(association))
                    /\ FlagsInclude(Get(foundModels', ResolvedJoin(association)),
                                    Get(foundModels', association.target.name))]_vars

(***************************************************************************)
(* The traversal of a program: visitAllSourceFiles over source files, and  *)
(* nodeVisitor over the syntax tree of each.  A source file is the         *)
(* sequence of its nodes, each with the indices of its children in         *)
(* ts.forEachChild order; statements are the children of the file itself.  *)
(***************************************************************************)
MaxFiles == 2       \* source files per program

\* The expression left of the final dot of a call: its kind, text and type.
Receiver(kind, text, type) == [kind |-> kind, text |-> text, type |-> type]

\* receiver.method(arguments), the leftmost token of receiver being firstToken
ReceiverCall(receiver, firstToken, method, arguments) ==
    CallExpression(<<receiver, Child("DotToken", "."), Child("Identifier", method)>>,
                   firstToken, arguments)

TreeNode(kind, node, children) == [kind |-> kind, node |-> node, children |-> children]
CallTree(node, children) == TreeNode("CallExpression", node, children)
ImportTree(node, children) == TreeNode("ImportDeclaration", node, children)
OtherTree(children) == TreeNode("Other", NoNode, children)

SourceFile(fileName, isDeclarationFile, statements, nodes) ==
    [fileName |-> fileName, isDeclarationFile |-> isDeclarationFile,
     statements |-> statements, nodes |-> nodes]

SourceFiles ==
    <<\* import { User } from './models'; User.create(Role.build(value));
      SourceFile("user.service.ts", FALSE, <<1, 3>>,
        <<ImportTree(ImportDeclaration("./models", "NamedImports", <<Plain("User")>>), <<2>>),
          OtherTree(<<>>),
          OtherTree(<<4>>),
          CallTree(ReceiverCall(UserClass, UserClass, "create", <<SomeValue>>), <<5, 6>>),
          OtherTree(<<>>),
          CallTree(ReceiverCall(RoleClass, RoleClass, "build", <<SomeValue>>), <<>>)>>),
      \* x.findAll(Role.destroy());
      SourceFile("report.ts", FALSE, <<1>>,
        <<CallTree(ReceiverCall(Untyped, Untyped, "findAll", <<SomeValue>>), <<2>>),
          CallTree(ReceiverCall(RoleClass, RoleClass, "destroy", <<>>), <<>>)>>),
      \* import { User, Role } from './models'; user.mainRole.destroy();
      SourceFile("admin.ts", FALSE, <<1, 2>>,
        <<ImportTree(ImportDeclaration("./models", "NamedImports",
                                       <<Plain("User"), Plain("Role")>>), <<>>),
          CallTree(ReceiverCall(
                     Receiver("PropertyAccessExpression", "user.mainRole", TypeOf("Role", <<>>)),
                     UserInstance, "destroy", <<>>), <<>>)>>),
      \* declare module: import { UserRole } from './models';
      SourceFile("models.d.ts", TRUE, <<1>>,
        <<ImportTree(ImportDeclaration("./models", "NamedImports", <<Plain("UserRole")>>),
                     <<>>)>>),
      \* this.repo.create(value), repo: typeof User
      SourceFile("repo.ts", FALSE, <<1>>,
        <<CallTree(ReceiverCall(
                     Receiver("PropertyAccessExpression", "this.repo", TypeOf("User", <<>>)),
                     ThisToken, "create", <<SomeValue>>), <<>>)>>),
      \* import { User } from './models'; User.scope(x).destroy();
      SourceFile("scope.ts", FALSE, <<1, 2>>,
        <<ImportTree(ImportDeclaration("./models", "NamedImports", <<Plain("User")>>), <<>>),
          CallTree(ReceiverCall(
                     Receiver("CallExpression", "User.scope(x)", TypeOf("User", <<>>)),
                     UserClass, "destroy", <<>>), <<3>>),
          OtherTree(<<4>>),
          CallTree(ReceiverCall(UserClass, UserClass, "scope", <<SomeValue>>), <<>>)>>),
      \* import { Role } from './models'; x.destroy(Role.upsert(value));
      SourceFile("sync.ts", FALSE, <<1, 2>>,
        <<ImportTree(ImportDeclaration("./models", "NamedImports", <<Plain("Role")>>), <<>>),
          CallTree(ReceiverCall(Untyped, Untyped, "destroy", <<SomeValue>>), <<3>>),
          CallTree(ReceiverCall(RoleClass, RoleClass, "upsert", <<SomeValue>>), <<>>)>>)>>

\* this.program.getSourceFiles(): up to MaxFiles different source files, in
\* any order.
Programs ==
    UNION {{[i \in 1..n |-> SourceFiles[order[i]]] :
                order \in {o \in [1..n -> 1..Len(SourceFiles)] :
                              \A i, j \in 1..n : i # j => o[i] # o[j]}} : n \in 1..MaxFiles}

\* One invocation of nodeVisitor: the source file and the node it was given.
Visit(file, node) == [file |-> file, node |-> node]

InitTraversal ==
    /\ impl \in Revisions
    /\ availableModels = BasicModels
    /\ options = [onlyFromSpecificModuleImport |-> Undefined]
    /\ status = "traversing"
    /\ foundModels = <<>>
    /\ diagnostics = <<>>
    /\ last = Last("none", NoNode, Undefined)
    /\ visited = 0
    /\ written = {}
    /\ imported = {}
    /\ program \in Programs
    /\ sourceFile = 0
    /\ pending = <<>>
    /\ trace = <<>>
    /\ completions = 0
    /\ sqlUsername = Undefined
    /\ sqlOptions = NoSQLOptions
    /\ query = NoQuery

traversalUnchanged ==
    <<impl, availableModels, options, diagnostics, visited, written, imported, program,
      generatorVars>>

\* The callback of getSourceFiles().forEach: a declaration file is skipped,
\* of any other file nodeVisitor(sourceFile) recurses into the statements.
EnterSourceFile ==
    /\ status = "traversing"
    /\ pending = <<>>
    /\ sourceFile < Len(program)
    /\ sourceFile' = sourceFile + 1
    /\ pending' = IF program[sourceFile + 1].isDeclarationFile THEN <<>>
                  ELSE program[sourceFile + 1].statements
    /\ last' = Last("sourceFile", NoNode, Undefined)
    /\ UNCHANGED <<foundModels, status, trace, completions>>
    /\ UNCHANGED traversalUnchanged

NextNode == program[sourceFile].nodes[Head(pending)]

\* nodeVisitor on an import declaration: processed, its children not visited.
TraverseImport ==
    /\ status = "traversing"
    /\ pending # <<>>
    /\ NextNode.kind = "ImportDeclaration"
    /\ foundModels' = nodeVisitor(impl, availableModels, options, Ok(foundModels),
                                  NextNode.node).fm
    /\ last' = Last("import", NextNode.node, Undefined)
    /\ trace' = Append(trace, Visit(sourceFile, Head(pending)))
    /\ pending' = Tail(pending)
    /\ UNCHANGED <<status, sourceFile, completions>>
    /\ UNCHANGED traversalUnchanged

\* nodeVisitor on a call expression: processed by the handler of the
\* revision, then its children are visited; a TypeError ends the analysis.
TraverseCall ==
    /\ status = "traversing"
    /\ pending # <<>>
    /\ NextNode.kind = "CallExpression"
    /\ LET outcome == IF impl = "part_002"
                      THEN processCallExpression(availableModels, foundModels, NextNode.node)
                      ELSE findAllWriteOperations(availableModels, foundModels, NextNode.node)
       IN  /\ foundModels' = outcome.fm
           /\ last' = Last("call", NextNode.node, outcome.model)
           /\ status' = IF outcome.threw THEN "thrown" ELSE status
           /\ pending' = IF outcome.threw THEN pending
                         ELSE NextNode.children \o Tail(pending)
    /\ trace' = Append(trace, Visit(sourceFile, Head(pending)))
    /\ UNCHANGED <<sourceFile, completions>>
    /\ UNCHANGED traversalUnchanged

\* nodeVisitor on any other node: only its children are visited.
TraverseOther ==
    /\ status = "traversing"
    /\ pending # <<>>
    /\ NextNode.kind = "Other"
    /\ pending' = NextNode.children \o Tail(pending)
    /\ trace' = Append(trace, Visit(sourceFile, Head(pending)))
    /\ last' = Last("other", NoNode, Undefined)
    /\ UNCHANGED <<foundModels, status, sourceFile, completions>>
    /\ UNCHANGED traversalUnchanged

\* visitAllSourceFiles after the forEach has returned: the completion pass.
FinishTraversal ==
    /\ status = "traversing"
    /\ pending = <<>>
    /\ sourceFile = Len(program)
    /\ foundModels' = CompletionPass(foundModels).fm
    /\ status' = IF CompletionPass(foundModels).threw THEN "thrown" ELSE "done"
    /\ completions' = completions + 1
    /\ last' = Last("complete", NoNode, Undefined)
    /\ UNCHANGED <<sourceFile, pending, trace>>
    /\ UNCHANGED traversalUnchanged

NextTraversal ==
    \/ EnterSourceFile
    \/ TraverseImport
    \/ TraverseCall
    \/ TraverseOther
    \/ FinishTraversal

SpecTraversal == InitTraversal /\ [][NextTraversal]_vars

(***************************************************************************)
(* Properties of the traversal.                                            *)
(***************************************************************************)
\* How many times nodeVisitor was given node n of source file f.
Visits(f, n) == Cardinality({i \in 1..Len(trace) : trace[i] = Visit(f, n)})

NodesOfKind(f, kind) ==
    {n \in 1..Len(program[f].nodes) : program[f].nodes[n].kind = kind}

NonDeclarationFiles == {f \in 1..Len(program) : ~program[f].isDeclarationFile}

\* Every import declaration and call expression of every non-declaration
\* source file has been given to nodeVisitor.
FullyTraversed ==
    /\ sourceFile = Len(program)
    /\ pending = <<>>
    /\ \A f \in NonDeclarationFiles :
          \A n \in NodesOfKind(f, "ImportDeclaration") \cup NodesOfKind(f, "CallExpression") :
              Visits(f, n) >= 1

\* C22: within one analysis the completion pass runs exactly once; it starts
\* only when every non-declaration source file has been fully traversed, and
\* no import or call expression is processed once it has begun.
C22_CompletionOnceAfterTraversal ==
    [][/\ completions' <= 1
       /\ (completions' # completions => FullyTraversed)
       /\ (last'.op \in {"import", "call"} => completions = 0 /\ completions' = 0)
       /\ (status' \in {"done", "thrown"} => completions' = 1)]_vars

\* C28: every call expression of every non-declaration source file is
\* processed exactly once, also one nested in the arguments or the receiver
\* of another call, whatever the enclosing call is; an import declaration is
\* processed and none of its children is visited.
C28_EveryCallVisitedOnce ==
    \A f \in NonDeclarationFiles :
        /\ \A n \in NodesOfKind(f, "CallExpression") :
              /\ Visits(f, n) <= 1
              /\ (status \in {"done", "thrown"} => Visits(f, n) = 1)
        /\ \A n \in NodesOfKind(f, "ImportDeclaration") :
              /\ Visits(f, n) <= 1
              /\ (status \in {"done", "thrown"} => Visits(f, n) = 1)
              /\ \A i \in 1..Len(program[f].nodes[n].children) :
                    Visits(f, program[f].nodes[n].children[i]) = 0

\* The record of key is the same in both stores, or in neither.
SameRecord(before, after, key) ==
    IF Has(before, key) THEN Has(after, key) /\ Get(after, key) = Get(before, key)
    ELSE ~Has(after, key)

\* C29: for a write call R.m(...), the entity updated is the one R denotes;
\* when the leftmost token of R denotes another entity, that entity's record
\* is left as it was.
C29_ReceiverDenotesEntity ==
    [][(/\ last'.op = "call"
        /\ trace' # trace
        /\ IsWriteCallShape(NextNode.node)) =>
          LET denoted == FirstStrategy(NextNode.node.expression.children[1])
              leftmost == FirstStrategy(NextNode.node.expression.firstToken)
          IN  /\ (denoted # Undefined => last'.model = denoted)
              /\ (leftmost \notin {Undefined, denoted} =>
                    SameRecord(foundModels, foundModels', leftmost))]_vars

====
